---------------------------- MODULE Spec2Model ----------------------------
(***************************************************************************)
(* Settlement pipeline of the transaction API: the balance-update handler  *)
(* (app/events/handlers/user_balance_update.py), the user and transaction  *)
(* services it calls, the repository they write through, and the Redis     *)
(* fan-out of app/services/queue.py.                                       *)
(*                                                                         *)
(* One settlement handler runs per transaction at a time; handlers of      *)
(* different transactions interleave at their awaits.  Every database and  *)
(* transport call can fail (the ok / outcome parameters of the actions).   *)
(***************************************************************************)
EXTENDS Integers, Sequences, FiniteSets, TLC

\* ------------------------------------------------------------------ bounds
\* Transaction rows that can be created.
MaxTx == 2
\* Calls of publish_transaction made directly on the queue service.
MaxPublish == 3
\* Events published while the background task is watched.
MaxItems == 2
\* Entries of the param dict handed to _generate_cache_key.
MaxParams == 2
\* Seconds the Redis server's clock is followed for.
MaxTime == 3

TxIds == 1 .. MaxTx

\* ------------------------------------------------------------- input sets
\* User 1 has a row in the users table, user 2 has none.
UserIds == {1, 2}
ExistingUsers == {1}
\* The balance user 1 holds when the first settlement arrives.
InitBalances == {10}

\* TransactionStatus (db/transaction_model.py); "none" stands for "no row".
PENDING == "pending"
SUCCESS == "success"
FAILED == "failed"
NoRow == "none"

\* TransactionType.CREDIT / TransactionType.DEBIT: str-valued enum members,
\* so they compare equal to the plain strings "credit" and "debit".
CREDIT == "credit"
DEBIT == "debit"

\* Settlement signals (the payload of the user_balance_update event): the
\* type is the string as carried, "CREDIT" a case variant, "refund" unknown.
Signals ==
    { [user_id |-> 1, amount |-> 50, transaction_type |-> "credit"],
      [user_id |-> 2, amount |-> 50, transaction_type |-> "credit"],
      [user_id |-> 1, amount |-> 5,  transaction_type |-> "debit"],
      [user_id |-> 1, amount |-> 30, transaction_type |-> "debit"],
      [user_id |-> 1, amount |-> 5,  transaction_type |-> "CREDIT"],
      [user_id |-> 1, amount |-> 5,  transaction_type |-> "refund"] }
NoSignal == [user_id |-> 0, amount |-> 0, transaction_type |-> "none"]

\* Transactions as TransactionCreate hands them to the repository (the
\* amount already in minor units).
CreateData ==
    { [user_id |-> 1, transaction_amount |-> 5, transaction_type |-> "credit"],
      [user_id |-> 1, transaction_amount |-> 3, transaction_type |-> "debit"] }

QueueNames == {"queue:user_stats", "queue:credit_score", "queue:notifications"}

\* ---------------------------------------------------------------- strings
Digits == <<"0", "1", "2", "3", "4", "5", "6", "7", "8", "9">>

\* str(n) of a non-negative int, as a sequence of characters.
RECURSIVE Str(_)
Str(n) == IF n < 10 THEN <<Digits[n + 1]>>
          ELSE Str(n \div 10) \o <<Digits[(n % 10) + 1]>>

\* The whitespace characters of the model's strings.
Whitespace == {" ", "\t", "\n"}

\* str.strip(): leading and trailing whitespace removed.
RECURSIVE Strip(_)
Strip(s) == IF s = <<>> THEN s
            ELSE IF Head(s) \in Whitespace THEN Strip(Tail(s))
            ELSE IF s[Len(s)] \in Whitespace THEN Strip(SubSeq(s, 1, Len(s) - 1))
            ELSE s

\* str.lower() on the type strings of the model.
Lower(s) == CASE s = "CREDIT" -> "credit"
              [] s = "DEBIT" -> "debit"
              [] s = "Credit" -> "credit"
              [] s = "Debit" -> "debit"
              [] OTHER -> s

\* ------------------------------------------------------ schema validation
\* Fields a pydantic model requires (declared without a default), and the
\* fields a model is constructed from at each call site.
UserUpdateRequired == {"full_name", "email", "balance"}
UserUpdateGiven == {"balance"}
PayloadRequired ==
    {"user_id", "amount", "transaction_id", "transaction_type", "full_name", "email"}
PayloadGivenByCreate == {"user_id", "amount", "transaction_id", "transaction_type"}

\* A model whose required fields are all optional.
AcceptAnyFields(required, given) == TRUE

\* pydantic: constructing a model raises ValidationError unless every
\* required field is given.
ModelValidates(required, given) == required \subseteq given

\* Validators that let every user_id and every type through.
AcceptEveryEvent(user_id, transaction_type) == TRUE

\* TransactionEvent validators: user_id must not be blank, the lower-cased
\* type must be credit or debit.
TransactionEventValid(user_id, transaction_type) ==
    /\ Strip(user_id) # <<>>
    /\ Lower(transaction_type) \in {"credit", "debit"}

\* The event handed to the queue service (the fields the consumers read).
TransactionEvent(t, sig) ==
    [transaction_id |-> Str(t), user_id |-> Str(sig.user_id),
     transaction_amount |-> sig.amount,
     transaction_type |-> Lower(sig.transaction_type)]

\* TransactionEvent(...) as pydantic constructs it: the validators run on
\* the given user_id and transaction_type; a ValueError of either is a
\* ValidationError of the construction; otherwise the fields are stored,
\* user_id as given and the type as the validator returned it.
NewTransactionEvent(user_id, transaction_amount, transaction_type, transaction_id) ==
    IF ~TransactionEventValid(user_id, transaction_type)
    THEN [state |-> "error",
          event |-> [transaction_id |-> <<>>, user_id |-> <<>>,
                     transaction_amount |-> 0, transaction_type |-> "none"]]
    ELSE [state |-> "made",
          event |-> [transaction_id |-> transaction_id, user_id |-> user_id,
                     transaction_amount |-> transaction_amount,
                     transaction_type |-> Lower(transaction_type)]]

\* model_dump_json: the event's fields in declaration order.
Serialize(e) ==
    <<e.user_id, e.transaction_amount, e.transaction_type, e.transaction_id>>


\* ------------------------------------------------------------------ state
VARIABLES
    balance,     \* users.balance as committed in the database
    bal0,        \* the balance each user held before any settlement
    txStatus,    \* transactions.transaction_status as committed, per id
    dispatched,  \* transactions whose create_transaction dispatched a signal
    createErr,   \* how the create_transaction call of a row ended
    signal,      \* the settlement signal delivered for a transaction
    hpc,         \* where the transaction's settlement handler stands
    hstart,      \* the transaction's status when the handler was invoked
    hsess,       \* the handler's session: the User object it holds
    hread,       \* the balance the handler's user_repo.get returned
    herr,        \* the exception the handler caught and re-raises
    hlogged,     \* the handler logged a failure of its FAILED write
    queues,      \* the three Redis delivery lists, head (left end) first
    channel,     \* messages sent on the channel transactions:new
    pubLog,      \* the calls of publish_transaction and how each ended
    wpc,         \* where the start_processing task stands
    inflight,    \* the item the task has popped and is processing
    popLog,      \* per list, the items popped from it, in pop order
    procLog,     \* per list, how the processing of each popped item ended
    dayCount,    \* hash user:{id}:stats, field tx_count:{today}
    txCount,     \* key user:{id}:tx_count
    avgTx,       \* key user:{id}:avg_transaction, as a fraction
    creditScore, \* key user:{id}:credit_score, in ScoreUnit-ths of a point
    keyIn,       \* the arguments of the last _generate_cache_key call
    keyOut,      \* the key that call returned
    evIn,        \* the fields a TransactionEvent is being constructed from
    evOut,       \* how that construction ended, and the event it made
    enumFormat,  \* how the interpreter formats a CacheNamespace member
    now,         \* the Redis server's clock, in seconds
    cache,       \* the cache keys of the Redis server
    cacheRet,    \* the last CacheManager call and what it returned
    lastSet,     \* per key, the last set_cached that succeeded
    invalidated, \* per transaction: its namespace was invalidated since its last change
    routeRet,    \* how the last request of a cached route ended
    handlerCalls \* how often the handler of a cached route was invoked

vars == <<balance, bal0, txStatus, dispatched, createErr, signal, hpc, hstart,
          hsess, hread, herr, hlogged, queues, channel, pubLog,
          wpc, inflight, popLog, procLog, dayCount, txCount, avgTx, creditScore,
          keyIn, keyOut, evIn, evOut, enumFormat, now, cache, cacheRet, lastSet,
          invalidated, routeRet, handlerCalls>>

settleVars == <<balance, bal0, txStatus, dispatched, createErr, signal, hpc,
                hstart, hsess, hread, herr, hlogged>>
queueVars == <<queues, channel, pubLog>>
workerVars == <<wpc, inflight, popLog, procLog>>
statVars == <<dayCount, txCount, avgTx, creditScore>>
cacheVars == <<keyIn, keyOut>>
eventVars == <<evIn, evOut>>
storeVars == <<enumFormat, now, cache, cacheRet, lastSet, invalidated>>
routeVars == <<routeRet, handlerCalls>>
restVars == <<eventVars, storeVars, routeVars>>
keptVars == <<workerVars, statVars, cacheVars, eventVars, routeVars,
              enumFormat, now, cache, cacheRet, lastSet>>
otherVars == <<workerVars, statVars, cacheVars, restVars>>

\* No item in processing.
NoItem == [queue |-> "none", data |-> <<>>]

\* The users the derived keys are kept for, by the user_id of the events.
StatUsers == {<<"1">>, <<"2">>}

\* A fraction num/den.
Zero == [num |-> 0, den |-> 1]

\* A key that is not set.
NoScore == [set |-> FALSE, val |-> 0]

\* None, an int or a str, as _generate_cache_key receives them.
NoValue == [kind |-> "none", int |-> 0, str |-> <<>>]

\* Before any _generate_cache_key call.
NoKeyInput ==
    [namespace |-> <<>>, identifier |-> NoValue, params |-> <<>>, prefix |-> NoValue]

\* Before any TransactionEvent is constructed.
NoEventInput ==
    [user_id |-> <<>>, transaction_amount |-> 0, transaction_type |-> "none",
     transaction_id |-> <<>>]
NoEvent ==
    [state |-> "none",
     event |-> [transaction_id |-> <<>>, user_id |-> <<>>,
                transaction_amount |-> 0, transaction_type |-> "none"]]

\* A session that holds no loaded object.
CleanSession == [loaded |-> FALSE, balance |-> 0, dirty |-> FALSE]

\* ---------------------------------------------------------- queue service
\* A pipeline that sends its commands one by one: a transport failure after
\* the first LPUSH leaves that list pushed and the rest untouched.
PipelineSendsOneByOne(q, ch, data, ok) ==
    IF ok
    THEN [queues |-> [n \in QueueNames |-> <<data>> \o q[n]],
          channel |-> Append(ch, data)]
    ELSE [queues |-> [q EXCEPT !["queue:user_stats"] = <<data>> \o @],
          channel |-> ch]

\* pipeline(transaction=True): LPUSH on each list and PUBLISH, buffered and
\* run by execute() as one MULTI/EXEC; a transport failure runs none.
PipelineExecute(q, ch, data, ok) ==
    IF ok
    THEN [queues |-> [n \in QueueNames |-> <<data>> \o q[n]],
          channel |-> Append(ch, data)]
    ELSE [queues |-> q, channel |-> ch]

\* RedisQueueService.publish_transaction: what the lists, the channel and
\* the call log hold after the call (ok: the transport did not fail).
PublishResult(e, ok) ==
    LET data == Serialize(e)
        r == PipelineExecute(queues, channel, data, ok)
    IN  [queues |-> r.queues, channel |-> r.channel,
         pubLog |-> Append(pubLog, [data |-> data, ok |-> ok])]

\* Events a caller of the queue service can construct.
QueueEvents ==
    { TransactionEvent(t, sig) :
        t \in {1, 2},
        sig \in { s \in Signals : s.user_id = 1 /\ s.amount = 5
                                   /\ s.transaction_type \in {"debit", "CREDIT"} } }

\* A direct call of publish_transaction (as tests/test_queue.py makes).
PublishTransaction(e, ok) ==
    /\ Len(pubLog) < MaxPublish
    /\ LET r == PublishResult(e, ok) IN
        /\ queues' = r.queues
        /\ channel' = r.channel
        /\ pubLog' = r.pubLog
    /\ UNCHANGED settleVars
    /\ UNCHANGED otherVars

\* ------------------------------------------------------- user service, ORM
\* BaseRepository.get on the users table: the row's balance, or no object.
LoadUser(u) ==
    IF u \in ExistingUsers
    THEN [loaded |-> TRUE, balance |-> balance[u], dirty |-> FALSE]
    ELSE CleanSession

\* A debit check that lets every amount through.
NoBalanceCheck(b, amount) == FALSE

\* debit_user: the floor check on the loaded balance.
InsufficientBalance(b, amount) == b < amount

\* credit_user: user.balance += (amount * 100)
CreditedBalance(b, amount) == b + (amount * 100)

\* debit_user: user.balance -= amount
DebitedBalance(b, amount) == b - amount

\* UserUpdate.convert_balance_to_cents: int(v * 100)
UserUpdateBalance(v) == v * 100

\* A rollback that leaves the session's pending changes in place.
RollbackKeepsChanges(s) == s

\* AsyncSession.rollback: pending changes are dropped, objects expired.
Rollback(s) == CleanSession

\* AsyncSession.commit: the session's pending change of the user row is
\* written with whatever the commit is for.
Flush(bal, u, s) ==
    IF s.loaded /\ s.dirty THEN [bal EXCEPT ![u] = s.balance] ELSE bal

\* ------------------------------------------------------------ transactions
\* The id the next created row gets.
NextTxId == CHOOSE t \in TxIds : txStatus[t] = NoRow /\ \A x \in 1 .. t - 1 : txStatus[x] # NoRow

\* The signal create_transaction builds from the created row.
SignalOfRow(d) ==
    [user_id |-> d.user_id, amount |-> d.transaction_amount * 100,
     transaction_type |-> d.transaction_type]

\* TransactionService.create_transaction. A failed transaction_repo.create
\* (ok = FALSE) is rolled back and raises to the caller: nothing changes.
\* Otherwise the row is committed PENDING, then the payload is constructed
\* and dispatched and the row returned; a payload that fails validation
\* raises to the caller after the commit and nothing is dispatched.
CreateTransaction(d, ok) ==
    /\ \E t \in TxIds : txStatus[t] = NoRow
    /\ IF ~ok
       THEN UNCHANGED <<settleVars, queueVars>>
       ELSE /\ LET t == NextTxId
                   valid == ModelValidates(PayloadRequired, PayloadGivenByCreate)
               IN  /\ txStatus' = [txStatus EXCEPT ![t] = PENDING]
                   /\ dispatched' = IF valid THEN dispatched \cup {t} ELSE dispatched
                   /\ signal' = IF valid THEN [signal EXCEPT ![t] = SignalOfRow(d)]
                                         ELSE signal
                   /\ createErr' = [createErr EXCEPT
                                      ![t] = IF valid THEN "returned" ELSE "ValidationError"]
            /\ UNCHANGED <<balance, bal0, hpc, hstart, hsess, hread, herr, hlogged>>
            /\ UNCHANGED queueVars

\* An except-path write that leaves the status as it is.
StatusNotWritten(cur, ok) == cur

\* update_transaction_status(FAILED) followed by commit, as the except path
\* and the else branch run it: the row's status after it (ok: the store
\* took the write; a missing row raises instead).
StatusAfterFailedWrite(cur, ok) ==
    IF ok /\ cur # NoRow THEN FAILED ELSE cur

\* ------------------------------------------------------- settlement handler
\* The record of invalidations after a step of t's handler that left the
\* statuses st and the balances bal: the step contains no cache call, so
\* a transaction whose status it changed, and every transaction when it
\* changed a balance, has had no invalidation since.
StaleAfterWrite(t, st, bal) ==
    [x \in TxIds |->
        /\ invalidated[x]
        /\ st[x] = txStatus[x]
        /\ bal = balance]

\* handle_user_balance_update, lines 57-76/84/92: the event is constructed
\* and the branch chosen; a validator's error goes to the except path.
HandlerInvoked(t, sig) ==
    /\ txStatus[t] # NoRow
    /\ hpc[t] = "idle"
    /\ signal[t] \in {NoSignal, sig}
    /\ signal' = [signal EXCEPT ![t] = sig]
    /\ hstart' = [hstart EXCEPT ![t] = txStatus[t]]
    /\ hsess' = [hsess EXCEPT ![t] = CleanSession]
    /\ hread' = [hread EXCEPT ![t] = CleanSession]
    /\ hlogged' = [hlogged EXCEPT ![t] = FALSE]
    /\ IF ~TransactionEventValid(Str(sig.user_id), sig.transaction_type)
       THEN /\ hpc' = [hpc EXCEPT ![t] = "except"]
            /\ herr' = [herr EXCEPT ![t] = "EventInvalid"]
       ELSE /\ hpc' = [hpc EXCEPT ![t] =
                         IF sig.transaction_type \in {CREDIT, DEBIT}
                         THEN "user" ELSE "other"]
            /\ herr' = [herr EXCEPT ![t] = "none"]
    /\ UNCHANGED <<balance, bal0, txStatus, dispatched, createErr>>
    /\ UNCHANGED queueVars
    /\ UNCHANGED otherVars

\* The event bus calls the handler with a signal for t: the one
\* create_transaction dispatched, or one from another dispatcher.
SignalArrives(t) ==
    \E sig \in Signals \cup ({signal[t]} \ {NoSignal}) : HandlerInvoked(t, sig)

\* credit_user / debit_user: await self.user_repo.get(user_id).
GetUser(t, ok) ==
    /\ hpc[t] = "user"
    /\ IF ok
       THEN /\ hsess' = [hsess EXCEPT ![t] = LoadUser(signal[t].user_id)]
            /\ hread' = [hread EXCEPT ![t] = LoadUser(signal[t].user_id)]
            /\ hpc' = [hpc EXCEPT ![t] = "apply"]
            /\ herr' = herr
       ELSE /\ hsess' = hsess
            /\ hread' = hread
            /\ hpc' = [hpc EXCEPT ![t] = "except"]
            /\ herr' = [herr EXCEPT ![t] = "StorageError"]
    /\ UNCHANGED <<balance, bal0, txStatus, dispatched, createErr, signal, hstart, hlogged>>
    /\ UNCHANGED queueVars
    /\ UNCHANGED otherVars

\* What the handler has done when it leaves the try block for the except
\* block with exception err, its session being s.
Raised(t, err, s) ==
    [pc |-> "except", err |-> err, sess |-> s, balance |-> balance,
     status |-> txStatus[t], queues |-> queues, channel |-> channel,
     pubLog |-> pubLog]

\* Lines 77-83 / 85-91 from the return of user_repo.get on: the user
\* service's check and in-memory mutation, UserUpdate(balance=...),
\* BaseRepository.update (setattr, add, commit), the SUCCESS status write,
\* the commit and publish_transaction.  o chooses which call, if any, the
\* store or the transport fails.
BalanceStep(t, o) ==
    LET sig == signal[t]
        s == hsess[t]
        u == sig.user_id
    IN
    IF ~s.loaded THEN Raised(t, "UserNotFound", s)
    ELSE IF sig.transaction_type = DEBIT /\ InsufficientBalance(s.balance, sig.amount)
    THEN Raised(t, "InsufficientBalance", s)
    ELSE
      LET nb == IF sig.transaction_type = CREDIT
                THEN CreditedBalance(s.balance, sig.amount)
                ELSE DebitedBalance(s.balance, sig.amount)
          s1 == [s EXCEPT !.balance = nb, !.dirty = TRUE]
      IN
      IF ~ModelValidates(UserUpdateRequired, UserUpdateGiven)
      THEN Raised(t, "ValidationError", s1)
      ELSE
        LET stored == UserUpdateBalance(nb)
            s2 == [s1 EXCEPT !.balance = stored, !.dirty = FALSE]
            bal2 == [balance EXCEPT ![u] = stored]
            pub == PublishResult(TransactionEvent(t, sig), o # "publish_fails")
        IN
        IF o = "status_fails"
        THEN [pc |-> "except", err |-> "StorageError", sess |-> s2,
              balance |-> bal2, status |-> txStatus[t], queues |-> queues,
              channel |-> channel, pubLog |-> pubLog]
        ELSE [pc |-> IF o = "publish_fails" THEN "except" ELSE "done",
              err |-> IF o = "publish_fails" THEN "TransportError" ELSE "none",
              sess |-> s2, balance |-> bal2, status |-> SUCCESS,
              queues |-> pub.queues, channel |-> pub.channel,
              pubLog |-> pub.pubLog]

Outcomes == {"ok", "status_fails", "publish_fails"}

ApplyBalance(t, o) ==
    /\ hpc[t] = "apply"
    /\ LET r == BalanceStep(t, o) IN
        /\ hpc' = [hpc EXCEPT ![t] = r.pc]
        /\ herr' = [herr EXCEPT ![t] = r.err]
        /\ hsess' = [hsess EXCEPT ![t] = r.sess]
        /\ balance' = r.balance
        /\ txStatus' = [txStatus EXCEPT ![t] = r.status]
        /\ queues' = r.queues
        /\ channel' = r.channel
        /\ pubLog' = r.pubLog
    /\ invalidated' = StaleAfterWrite(t, txStatus', balance')
    /\ UNCHANGED <<bal0, dispatched, createErr, signal, hstart, hread, hlogged>>
    /\ UNCHANGED keptVars

\* Lines 93-98, the else branch: the FAILED write and commit, then
\* ValueError("Invalid transaction type"); a failed write raises instead.
OtherBranch(t, ok) ==
    /\ hpc[t] = "other"
    /\ txStatus' = [txStatus EXCEPT ![t] = StatusAfterFailedWrite(@, ok)]
    /\ hpc' = [hpc EXCEPT ![t] = "except"]
    /\ herr' = [herr EXCEPT ![t] = IF ok THEN "InvalidType" ELSE "StorageError"]
    /\ invalidated' = StaleAfterWrite(t, txStatus', balance)
    /\ UNCHANGED <<balance, bal0, dispatched, createErr, signal, hstart, hsess, hread, hlogged>>
    /\ UNCHANGED queueVars
    /\ UNCHANGED keptVars

\* Lines 102-115, the except block: rollback, then the best-effort FAILED
\* write and commit (its own failure is only logged), then raise e.
HandleException(t, ok) ==
    /\ hpc[t] = "except"
    /\ LET s == Rollback(hsess[t])
           wrote == ok /\ txStatus[t] # NoRow
       IN  /\ hsess' = [hsess EXCEPT ![t] = IF wrote THEN [s EXCEPT !.dirty = FALSE] ELSE s]
           /\ balance' = IF wrote THEN Flush(balance, signal[t].user_id, s) ELSE balance
           /\ txStatus' = [txStatus EXCEPT ![t] = StatusAfterFailedWrite(@, ok)]
           /\ hlogged' = [hlogged EXCEPT ![t] = ~wrote]
    /\ hpc' = [hpc EXCEPT ![t] = "done"]
    /\ invalidated' = StaleAfterWrite(t, txStatus', balance')
    /\ UNCHANGED <<bal0, dispatched, createErr, signal, hstart, hread, herr>>
    /\ UNCHANGED queueVars
    /\ UNCHANGED keptVars

\* Lines 117-118, finally: the session is closed and the handler is left,
\* by the re-raised exception or by falling off its end.
CloseSession(t) ==
    /\ hpc[t] = "done"
    /\ hpc' = [hpc EXCEPT ![t] = "idle"]
    /\ hsess' = [hsess EXCEPT ![t] = CleanSession]
    /\ hread' = [hread EXCEPT ![t] = CleanSession]
    /\ herr' = [herr EXCEPT ![t] = "none"]
    /\ hlogged' = [hlogged EXCEPT ![t] = FALSE]
    /\ hstart' = [hstart EXCEPT ![t] = NoRow]
    /\ UNCHANGED <<balance, bal0, txStatus, dispatched, createErr, signal>>
    /\ UNCHANGED queueVars
    /\ UNCHANGED otherVars

\* --------------------------------------------------- downstream processors
\* json.loads of a popped item: the fields the processors read.
ParseEvent(data) ==
    [user_id |-> data[1], transaction_amount |-> data[2],
     transaction_type |-> data[3], transaction_id |-> data[4]]

\* A pop that takes the item at the head, where LPUSH put the newest.
PopHead(list) ==
    IF list = <<>> THEN [item |-> <<>>, found |-> FALSE, rest |-> list]
    ELSE [item |-> Head(list), found |-> TRUE, rest |-> Tail(list)]

\* BRPOP with timeout 1: the item at the tail of the list is removed and
\* returned; an empty list returns None when the timeout has passed.
BRPop(list) ==
    IF list = <<>> THEN [item |-> <<>>, found |-> FALSE, rest |-> list]
    ELSE [item |-> list[Len(list)], found |-> TRUE,
          rest |-> SubSeq(list, 1, Len(list) - 1)]

\* The list each branch of the loop pops, and the position after it.
QueueOf(pc) ==
    CASE pc \in {"pop_stats", "proc_stats"} -> "queue:user_stats"
      [] pc \in {"pop_credit", "proc_credit"} -> "queue:credit_score"
      [] pc \in {"pop_notif", "proc_notif"} -> "queue:notifications"
      [] OTHER -> "none"

ProcOf(pc) ==
    CASE pc = "pop_stats" -> "proc_stats"
      [] pc = "pop_credit" -> "proc_credit"
      [] pc = "pop_notif" -> "proc_notif"
      [] OTHER -> pc

\* A loop that backs off after every pop, an empty one included.
AlwaysBackoff(pc) == "sleep"

AfterOf(pc) ==
    CASE pc \in {"pop_stats", "proc_stats"} -> "pop_credit"
      [] pc \in {"pop_credit", "proc_credit"} -> "pop_notif"
      [] OTHER -> "pop_stats"

PopStates == {"pop_stats", "pop_credit", "pop_notif"}
ProcStates == {"proc_stats", "proc_credit", "proc_notif"}

RECURSIVE GCD(_, _)
GCD(a, b) == IF b = 0 THEN a ELSE GCD(b, a % b)

Abs(x) == IF x < 0 THEN -x ELSE x
Min(a, b) == IF a < b THEN a ELSE b
Max(a, b) == IF a > b THEN a ELSE b

\* The fraction num/den in lowest terms (den > 0).
Fraction(num, den) ==
    LET g == GCD(Abs(num), den)
    IN  IF g = 0 THEN Zero ELSE [num |-> num \div g, den |-> den \div g]

\* An average that weighs the stored mean as one amount.
MeanOfTwo(cur, n, amount) ==
    Fraction(cur.num + (amount * cur.den), cur.den * 2)

\* process_user_stats: new_avg = ((current_avg * (tx_count - 1)) + amount) / tx_count,
\* on exact fractions (the rounding of the float arithmetic is left out).
NewAverage(cur, n, amount) ==
    Fraction((cur.num * (n - 1)) + (amount * cur.den), cur.den * n)

\* Scores are counted in 1/ScoreUnit of a point, so that amount / 1000 and
\* amount / 2000 are whole.
ScoreUnit == 2000

\* process_credit_score: min(amount / 1000, 5) for "credit",
\* max(-amount / 2000, -3) for every other type.
ScoreAdjustment(amount, tx_type) ==
    IF tx_type = "credit"
    THEN Min(amount * (ScoreUnit \div 1000), 5 * ScoreUnit)
    ELSE Max((-amount) * (ScoreUnit \div 2000), (-3) * ScoreUnit)

\* A score written as computed, with no bounds.
NoClamp(v) == v

\* process_credit_score: max(min(v, 850), 300)
ClampScore(v) == Max(Min(v, 850 * ScoreUnit), 300 * ScoreUnit)

\* float(get(score_key) or 700)
CurrentScore(stored) == IF stored.set THEN stored.val ELSE 700 * ScoreUnit

\* The value process_credit_score sets for the user.
NewScore(stored, amount, tx_type) ==
    [set |-> TRUE,
     val |-> ClampScore(CurrentScore(stored) + ScoreAdjustment(amount, tx_type))]

\* A failed item put back on its list.
RequeueFailed(list, item) == <<item>> \o list

\* The except branch of the loop: the failed item is not put back.
AfterFailure(list, item) == list

\* One brpop of the loop (ok: the transport did not raise). An item goes
\* into processing; an empty list moves on to the next list; an exception
\* goes to the except branch.
WorkerPop(ok) ==
    /\ wpc \in PopStates
    /\ LET q == QueueOf(wpc)
           r == BRPop(queues[q])
       IN  IF ~ok
           THEN /\ wpc' = "sleep"
                /\ UNCHANGED <<queues, inflight, popLog>>
           ELSE IF r.found
           THEN /\ queues' = [queues EXCEPT ![q] = r.rest]
                /\ inflight' = [queue |-> q, data |-> r.item]
                /\ popLog' = [popLog EXCEPT ![q] = Append(@, r.item)]
                /\ wpc' = ProcOf(wpc)
           ELSE /\ wpc' = AfterOf(wpc)
                /\ UNCHANGED <<queues, inflight, popLog>>
    /\ UNCHANGED <<procLog, channel, pubLog>>
    /\ UNCHANGED <<settleVars, statVars, cacheVars, restVars>>

\* What process_user_stats has written when it ends: everything ("ok"),
\* nothing ("fails": the HINCRBY raised), or the day counter only
\* ("fails_late": a GET or the SET pipeline raised after the HINCRBY).
StatsWritten(e, outcome) ==
    LET u == e.user_id
        n == txCount[u] + 1
    IN  [dayCount |-> IF outcome = "fails" THEN dayCount
                      ELSE [dayCount EXCEPT ![u] = @ + 1],
         txCount |-> IF outcome = "ok" THEN [txCount EXCEPT ![u] = n] ELSE txCount,
         avgTx |-> IF outcome = "ok"
                   THEN [avgTx EXCEPT ![u] = NewAverage(@, n, e.transaction_amount)]
                   ELSE avgTx]

ProcOutcomes == {"ok", "fails", "fails_late"}

\* The processing of the popped item ends: process_user_stats,
\* process_credit_score or process_notifications returns, and the loop goes
\* on to the next list, or it raises, and the loop goes to its except branch.
WorkerProcess(outcome) ==
    /\ wpc \in ProcStates
    /\ outcome = "fails_late" => wpc = "proc_stats"
    /\ LET q == inflight.queue
           e == ParseEvent(inflight.data)
           w == StatsWritten(e, outcome)
       IN  /\ dayCount' = IF wpc = "proc_stats" THEN w.dayCount ELSE dayCount
           /\ txCount' = IF wpc = "proc_stats" THEN w.txCount ELSE txCount
           /\ avgTx' = IF wpc = "proc_stats" THEN w.avgTx ELSE avgTx
           /\ creditScore' =
                 IF wpc = "proc_credit" /\ outcome = "ok"
                 THEN [creditScore EXCEPT ![e.user_id] =
                          NewScore(@, e.transaction_amount, e.transaction_type)]
                 ELSE creditScore
           /\ procLog' = [procLog EXCEPT ![q] =
                             Append(@, IF outcome = "ok" THEN "ok" ELSE "failed")]
           /\ queues' = IF outcome = "ok" THEN queues
                        ELSE [queues EXCEPT ![q] = AfterFailure(@, inflight.data)]
    /\ inflight' = NoItem
    /\ wpc' = IF outcome = "ok" THEN AfterOf(wpc) ELSE "sleep"
    /\ UNCHANGED <<popLog, channel, pubLog>>
    /\ UNCHANGED <<settleVars, cacheVars, restVars>>

\* The except branch: the error is printed, asyncio.sleep(1), and the loop
\* starts again at the stats list.
WorkerSleep ==
    /\ wpc = "sleep"
    /\ wpc' = "pop_stats"
    /\ UNCHANGED <<inflight, popLog, procLog>>
    /\ UNCHANGED <<settleVars, queueVars, statVars, cacheVars, restVars>>

\* A processor whose await never returns: the task stays in it.
ProcessorStalls ==
    /\ wpc \in ProcStates
    /\ wpc' = "stalled"
    /\ UNCHANGED <<inflight, popLog, procLog>>
    /\ UNCHANGED <<settleVars, queueVars, statVars, cacheVars, restVars>>

\* lifespan after yield: background_task.cancel(). CancelledError is raised
\* at the await the task stands in and is not caught by "except Exception":
\* the task ends there. In process_user_stats the HINCRBY may already have
\* been run (late).
TaskCancelled(late) ==
    /\ wpc # "exited"
    /\ late => wpc = "proc_stats"
    /\ dayCount' = IF late
                   THEN [dayCount EXCEPT ![ParseEvent(inflight.data).user_id] = @ + 1]
                   ELSE dayCount
    /\ wpc' = "exited"
    /\ UNCHANGED <<inflight, popLog, procLog, txCount, avgTx, creditScore>>
    /\ UNCHANGED <<settleVars, queueVars, cacheVars, restVars>>

\* Events handed to process_credit_score directly: small, large and
\* negative amounts, the two types and a type that is neither.
ScoreAmounts == {-3000000, -2000, 0, 1000, 4000, 3000000}
ScoreTypes == {"credit", "debit", "refund"}

\* RedisQueueService.process_credit_score(transaction_data): the score is
\* read, adjusted, bounded and set (ok: the store did not raise; when it
\* raises nothing is written).
ProcessCreditScore(u, amount, tx_type, ok) ==
    /\ creditScore' = IF ok THEN [creditScore EXCEPT ![u] = NewScore(@, amount, tx_type)]
                      ELSE creditScore
    /\ UNCHANGED <<dayCount, txCount, avgTx>>
    /\ UNCHANGED <<settleVars, queueVars, workerVars, cacheVars, restVars>>

\* ---------------------------------------------------------------- cache keys
\* The characters of the modelled strings, in code point order.
KeyChars ==
    <<"0", "1", "2", "3", "4", "5", "6", "7", "8", "9", ":", "B", "_",
      "a", "b", "c", "d", "e", "f", "i", "k", "l", "m", "n", "p", "s", "t", "x">>

\* The rank of a character in code point order.
CharCode(c) == CHOOSE i \in 1 .. Len(KeyChars) : KeyChars[i] = c

\* s < t as Python compares str: character by character, a proper prefix
\* first.
RECURSIVE StrLess(_, _)
StrLess(s, t) ==
    IF t = <<>> THEN FALSE
    ELSE IF s = <<>> THEN TRUE
    ELSE IF Head(s) # Head(t) THEN CharCode(Head(s)) < CharCode(Head(t))
    ELSE StrLess(Tail(s), Tail(t))

\* sep.join(parts)
RECURSIVE Join(_, _)
Join(parts, sep) ==
    IF parts = <<>> THEN <<>>
    ELSE IF Len(parts) = 1 THEN parts[1]
    ELSE parts[1] \o sep \o Join(Tail(parts), sep)

IntValue(n) == [kind |-> "int", int |-> n, str |-> <<>>]
StrValue(str) == [kind |-> "str", int |-> 0, str |-> str]

\* str(v), f"{v}" of an int or a str.
FormatValue(v) == IF v.kind = "int" THEN Str(v.int) ELSE v.str

\* [(k, v) for k, v in params.items() if v is not None]
WithValue(params) == SelectSeq(params, LAMBDA kv : kv.value.kind # "none")

\* The pairs left in insertion order.
Unsorted(pairs) == pairs

\* sorted(pairs, key=lambda x: x[0]): the pair with the least name first.
RECURSIVE SortedByName(_)
SortedByName(pairs) ==
    IF pairs = <<>> THEN <<>>
    ELSE LET i == CHOOSE j \in 1 .. Len(pairs) :
                    \A k \in 1 .. Len(pairs) :
                        \/ StrLess(pairs[j].name, pairs[k].name)
                        \/ (pairs[j].name = pairs[k].name /\ j <= k)
         IN  <<pairs[i]>> \o
             SortedByName(SubSeq(pairs, 1, i - 1) \o SubSeq(pairs, i + 1, Len(pairs)))

\* [f"{k}_{v}" for k, v in sorted_params]
ParamParts(params) ==
    LET sp == SortedByName(WithValue(params))
    IN  [i \in 1 .. Len(sp) |-> sp[i].name \o <<"_">> \o FormatValue(sp[i].value)]

\* ":".join(param_parts)
ParamString(params) == Join(ParamParts(params), <<":">>)

HexDigits ==
    <<"0", "1", "2", "3", "4", "5", "6", "7", "8", "9", "a", "b", "c", "d", "e", "f">>

\* A checksum of the characters of a string, computed by halves.
RECURSIVE CheckSum(_)
CheckSum(str) ==
    IF str = <<>> THEN 0
    ELSE IF Len(str) = 1 THEN CharCode(str[1])
    ELSE LET m == Len(str) \div 2
         IN  ((CheckSum(SubSeq(str, 1, m)) * 131)
              + (CheckSum(SubSeq(str, m + 1, Len(str))) * 31) + Len(str)) % 65521

\* hashlib.md5(param_string.encode()).hexdigest(): 32 hexadecimal digits
\* that depend on the content only (a checksum stands for MD5).
Md5Hex(str) ==
    LET h == CheckSum(str)
    IN  [i \in 1 .. 32 |-> HexDigits[(((h \div i) + (h * i) + i) % 16) + 1]]

\* A param string that is never taken as long.
NeverTooLong(str) == FALSE

\* len(param_string) > 100
TooLong(str) == Len(str) > 100

\* The segment appended for the params.
ParamSegment(params) ==
    LET ps == ParamString(params)
    IN  IF TooLong(ps) THEN Md5Hex(ps) ELSE ps

\* key_parts with the identifier put before the prefix.
KeyPartsIdentifierFirst(namespace, identifier, params, prefix) ==
    <<namespace>>
    \o (IF identifier.kind # "none" THEN <<FormatValue(identifier)>> ELSE <<>>)
    \o (IF prefix.kind # "none" /\ prefix.str # <<>> THEN <<prefix.str>> ELSE <<>>)
    \o (IF params # <<>> /\ ParamParts(params) # <<>>
        THEN <<ParamSegment(params)>> ELSE <<>>)

\* key_parts as _generate_cache_key builds it: the namespace, the prefix
\* if truthy, str(identifier) if not None, the param segment if params is
\* truthy and some param has a value.
KeyParts(namespace, identifier, params, prefix) ==
    <<namespace>>
    \o (IF prefix.kind # "none" /\ prefix.str # <<>> THEN <<prefix.str>> ELSE <<>>)
    \o (IF identifier.kind # "none" THEN <<FormatValue(identifier)>> ELSE <<>>)
    \o (IF params # <<>> /\ ParamParts(params) # <<>>
        THEN <<ParamSegment(params)>> ELSE <<>>)

\* CacheManager._generate_cache_key
GenerateCacheKey(namespace, identifier, params, prefix) ==
    Join(KeyParts(namespace, identifier, params, prefix), <<":">>)

\* A str of n characters "x".
Xs(n) == [i \in 1 .. n |-> "x"]

\* The arguments of the modelled calls. Params are a dict in insertion
\* order (None and the empty dict are both the empty sequence); their
\* values are None, ints and strs, some long enough to bring the param
\* string to 100 and to 101 characters.
KeyNamespaces == {<<"t">>}
KeyPrefixes == {NoValue, StrValue(<<>>), StrValue(<<"l", "i", "s", "t">>)}
KeyIdentifiers == {NoValue, IntValue(0), IntValue(123), StrValue(<<"a", "b">>)}
ParamNames == {<<"a">>, <<"a", "b">>, <<"B">>}
ParamValues == {NoValue, IntValue(0), StrValue(<<"c">>), StrValue(Xs(98)), StrValue(Xs(99))}
ParamPairs == {[name |-> n, value |-> v] : n \in ParamNames, v \in ParamValues}

ParamMaps ==
    { m \in UNION {[1 .. n -> ParamPairs] : n \in 0 .. MaxParams} :
        \A i, j \in 1 .. Len(m) : i # j => m[i].name # m[j].name }

KeyInputs ==
    [namespace : KeyNamespaces, identifier : KeyIdentifiers,
     params : ParamMaps, prefix : KeyPrefixes]

\* A call of _generate_cache_key with the arguments keyIn returns.
GenerateKey ==
    /\ keyIn # NoKeyInput
    /\ keyOut = <<>>
    /\ keyOut' = GenerateCacheKey(keyIn.namespace, keyIn.identifier,
                                  keyIn.params, keyIn.prefix)
    /\ UNCHANGED keyIn
    /\ UNCHANGED <<settleVars, queueVars, workerVars, statVars, restVars>>

\* ------------------------------------------------------------ cache store
\* The members of CacheNamespace(str, Enum) the routes use: the str each
\* member is, and the text str() gives for it.
TRANSACTION ==
    [kind |-> "enum",
     value |-> <<"t", "r", "a", "n", "s", "a", "c", "t", "i", "o", "n">>,
     member |-> <<"C", "a", "c", "h", "e", "N", "a", "m", "e", "s", "p", "a", "c", "e", ".", "T", "R", "A", "N", "S", "A", "C", "T", "I", "O", "N">>]
USER ==
    [kind |-> "enum",
     value |-> <<"u", "s", "e", "r">>,
     member |-> <<"C", "a", "c", "h", "e", "N", "a", "m", "e", "s", "p", "a", "c", "e", ".", "U", "S", "E", "R">>]
ANALYTICS ==
    [kind |-> "enum",
     value |-> <<"a", "n", "a", "l", "y", "t", "i", "c", "s">>,
     member |-> <<"C", "a", "c", "h", "e", "N", "a", "m", "e", "s", "p", "a", "c", "e", ".", "A", "N", "A", "L", "Y", "T", "I", "C", "S">>]

\* No namespace.
NoNamespace == [kind |-> "str", value |-> <<>>, member |-> <<>>]

\* How an f-string formats a member of a str-mixin Enum: up to Python
\* 3.10 with the format of the mixed-in str (its value), from Python 3.11
\* on with str() (class and member name). The source pins no version.
EnumFormats == {"value", "member"}

\* Python values. kind is none, int, str, datetime, list, dict, object or
\* attr; name holds the text of a scalar, the class of an object and the
\* key of a dict entry or attribute; items holds the elements of a list,
\* the entries of a dict or object, and the one value of an entry.
Py(kind, name, items) == [kind |-> kind, name |-> name, items |-> items]
PyNone == Py("none", "", <<>>)

\* A Transaction row as the ORM returns it.
TransactionRow ==
    Py("object", "Transaction",
       << Py("attr", "_sa_instance_state", <<Py("object", "InstanceState", <<>>)>>),
          Py("attr", "id", <<Py("int", "1", <<>>)>>),
          Py("attr", "transaction_date", <<Py("datetime", "2024-01-01 00:00:00", <<>>)>>) >>)

\* What the handlers of the cached routes return: no rows, one row.
EmptyList == Py("list", "", <<>>)
OneRow == Py("list", "", <<TransactionRow>>)

\* key.startswith('_')
IsPrivate(attr) == attr.name \in {"_sa_instance_state"}

\* CacheManager._serialize_data: an object with __dict__ becomes the dict
\* of its public attributes (their values as they are), a list and the
\* values of a dict are serialized in turn, anything else is kept.
RECURSIVE SerializeData(_)
SerializeData(data) ==
    CASE data.kind = "object" ->
            Py("dict", "", SelectSeq(data.items, LAMBDA a : ~IsPrivate(a)))
      [] data.kind = "list" ->
            Py("list", "", [i \in 1 .. Len(data.items) |-> SerializeData(data.items[i])])
      [] data.kind = "dict" ->
            Py("dict", "",
               [i \in 1 .. Len(data.items) |->
                   Py("attr", data.items[i].name,
                      <<SerializeData(data.items[i].items[1])>>)])
      [] OTHER -> data

\* json.dumps(data, default=str): the JSON document of the value. What
\* JSON has no form for (a datetime, an object) is written as the string
\* str() gives.
RECURSIVE JsonDumps(_)
JsonDumps(data) ==
    CASE data.kind \in {"datetime", "object"} -> Py("str", data.name, <<>>)
      [] data.kind \in {"list", "dict", "attr"} ->
            Py(data.kind, data.name,
               [i \in 1 .. Len(data.items) |-> JsonDumps(data.items[i])])
      [] OTHER -> data

\* json.loads: the value of a JSON document (null is None, an array a
\* list, an object a dict).
JsonLoads(text) == text

\* An entry of the Redis keyspace: the text stored and the time at which
\* the server expires it.
NoEntry == [present |-> FALSE, text |-> PyNone, expireAt |-> 0]

\* The key is there for a command run at time t.
Live(entry, t) == entry.present /\ t < entry.expireAt

\* The keys of the cached routes: get_transactions(skip=0, limit=20) and
\* get_transaction_analytics(user_id=1).
TransactionListKey ==
    GenerateCacheKey(TRANSACTION.value, NoValue,
                     << [name |-> <<"s", "k", "i", "p">>, value |-> IntValue(0)],
                        [name |-> <<"l", "i", "m", "i", "t">>, value |-> IntValue(20)] >>,
                     StrValue(<<"l", "i", "s", "t">>))
AnalyticsKey(user_id) ==
    GenerateCacheKey(ANALYTICS.value, IntValue(user_id), <<>>,
                     StrValue(<<"t", "r", "a", "n", "s", "a", "c", "t", "i", "o", "n">>))
CacheKeys == {TransactionListKey, AnalyticsKey(1)}

\* Glob matching as SCAN MATCH does it, for patterns of literal characters
\* and '*' (the patterns built here hold no other special character).
RECURSIVE Glob(_, _)
Glob(pattern, key) ==
    IF pattern = <<>> THEN key = <<>>
    ELSE IF Head(pattern) = "*"
    THEN \/ Glob(Tail(pattern), key)
         \/ key # <<>> /\ Glob(pattern, Tail(key))
    ELSE /\ key # <<>>
         /\ Head(key) = Head(pattern)
         /\ Glob(Tail(pattern), Tail(key))

\* f"{namespace}" under the interpreter's enum format.
FormatNamespace(ns, fmt) ==
    IF ns.kind = "enum" /\ fmt = "member" THEN ns.member ELSE ns.value

\* `if identifier:` on None, an int or a str.
IsTruthy(v) ==
    CASE v.kind = "int" -> v.int # 0
      [] v.kind = "str" -> v.str # <<>>
      [] OTHER -> FALSE

\* invalidate_by_namespace: f"{namespace}:*", or f"{namespace}:*{identifier}*"
\* when the identifier is truthy.
InvalidationPattern(ns, identifier, fmt) ==
    IF IsTruthy(identifier)
    THEN FormatNamespace(ns, fmt) \o <<":", "*">> \o FormatValue(identifier) \o <<"*">>
    ELSE FormatNamespace(ns, fmt) \o <<":", "*">>

\* invalidate_by_pattern with the store answering: the keys scan_iter
\* yields for the pattern are deleted; the count DEL returns, or 0 when
\* the scan found none.
InvalidateByPattern(c, pattern, t) ==
    LET keys == { k \in CacheKeys : Live(c[k], t) /\ Glob(pattern, k) }
    IN  [cache |-> [k \in CacheKeys |-> IF k \in keys THEN NoEntry ELSE c[k]],
         count |-> Cardinality(keys)]

\* The keys the queue processors keep in the same Redis database:
\* user:{id}:stats, user:{id}:tx_count, user:{id}:avg_transaction and
\* user:{id}:credit_score, for the user id u of the events.
ProcessorFields == {"stats", "tx_count", "avg_transaction", "credit_score"}
ProcessorKey(u, field) ==
    <<"u", "s", "e", "r", ":">> \o u \o <<":">> \o
    ( CASE field = "stats" -> <<"s", "t", "a", "t", "s">>
        [] field = "tx_count" -> <<"t", "x", "_", "c", "o", "u", "n", "t">>
        [] field = "avg_transaction" -> <<"a", "v", "g", "_", "t", "r", "a", "n", "s", "a", "c", "t", "i", "o", "n">>
        [] OTHER -> <<"c", "r", "e", "d", "i", "t", "_", "s", "c", "o", "r", "e">> )

\* The processors' keys as a record of the four variables that hold them.
ProcessorState ==
    [dayCount |-> dayCount, txCount |-> txCount, avgTx |-> avgTx,
     creditScore |-> creditScore]

\* The key is in the keyspace: the day hash after its first HINCRBY, the
\* count and the mean after the first complete stats step, the score after
\* its first SET.
ProcessorKeyExists(st, u, field) ==
    CASE field = "stats" -> st.dayCount[u] > 0
      [] field = "credit_score" -> st.creditScore[u].set
      [] OTHER -> st.txCount[u] > 0

\* invalidate_by_pattern on the processors' keys: scan_iter yields every
\* key of the database that matches, whoever wrote it, and DEL removes it.
DeleteProcessorKeys(st, pattern) ==
    LET hit(u, field) == ProcessorKeyExists(st, u, field)
                         /\ Glob(pattern, ProcessorKey(u, field))
    IN  [dayCount |-> [u \in StatUsers |->
                          IF hit(u, "stats") THEN 0 ELSE st.dayCount[u]],
         txCount |-> [u \in StatUsers |->
                          IF hit(u, "tx_count") THEN 0 ELSE st.txCount[u]],
         avgTx |-> [u \in StatUsers |->
                          IF hit(u, "avg_transaction") THEN Zero ELSE st.avgTx[u]],
         creditScore |-> [u \in StatUsers |->
                          IF hit(u, "credit_score") THEN NoScore
                          ELSE st.creditScore[u]],
         count |-> Cardinality({ x \in StatUsers \X ProcessorFields : hit(x[1], x[2]) })]

\* Before any CacheManager call.
NoCall ==
    [op |-> "none", key |-> <<>>, ns |-> NoNamespace, identifier |-> NoValue,
     ok |-> TRUE, raised |-> FALSE, val |-> PyNone, flag |-> FALSE, count |-> 0]

\* What the callers have done with a key: never set it ("none"); set it to
\* value with a ttl that runs until the time `until` ("fresh"); called,
\* since then, an invalidation with an identifier that is meant for the
\* key ("covered"), or invalidate_by_namespace on the key's namespace
\* without the store failing ("invalidated"); or let the ttl run out
\* ("expired").
NoSet == [state |-> "none", value |-> PyNone, until |-> 0]

\* The namespace of a key: its text before the first ':'.
RECURSIVE KeyNamespace(_)
KeyNamespace(key) ==
    IF key = <<>> \/ Head(key) = ":" THEN <<>>
    ELSE <<Head(key)>> \o KeyNamespace(Tail(key))

\* The text sub occurs in the text str.
Contains(sub, str) ==
    \E i \in 1 .. Len(str) - Len(sub) + 1 : SubSeq(str, i, i + Len(sub) - 1) = sub

\* An invalidate_by_namespace(ns, identifier) call is meant for the key:
\* it names the key's namespace and, if it names an identifier, one whose
\* text the key holds after the namespace.
Covers(ns, identifier, key) ==
    /\ KeyNamespace(key) = ns.value
    /\ IsTruthy(identifier) =>
          Contains(FormatValue(identifier),
                   SubSeq(key, Len(ns.value) + 2, Len(key)))

\* CacheManager.set_cached: the serialized data is stored as JSON with
\* EX expire and True returned; an exception of the store is printed and
\* False returned (ok: the store answers).
SetCached(cache_key, data, expire, ok) ==
    /\ cache' = IF ok
                THEN [cache EXCEPT ![cache_key] =
                        [present |-> TRUE, text |-> JsonDumps(SerializeData(data)),
                         expireAt |-> now + expire]]
                ELSE cache
    /\ cacheRet' = [NoCall EXCEPT !.op = "set", !.key = cache_key, !.ok = ok,
                                  !.flag = ok]
    /\ lastSet' = IF ok
                  THEN [lastSet EXCEPT ![cache_key] =
                          [state |-> "fresh", value |-> data, until |-> now + expire]]
                  ELSE lastSet
    /\ UNCHANGED <<enumFormat, now, invalidated>>
    /\ UNCHANGED <<settleVars, queueVars, workerVars, statVars, cacheVars,
                   eventVars, routeVars>>

\* What get_cached(cache_key) returns: json.loads of what GET returns,
\* None when the key is not there or the store raises.
GetResult(cache_key, ok) ==
    IF ok /\ Live(cache[cache_key], now)
    THEN JsonLoads(cache[cache_key].text) ELSE PyNone

\* CacheManager.get_cached
GetCached(cache_key, ok) ==
    /\ cacheRet' = [NoCall EXCEPT
                      !.op = "get", !.key = cache_key, !.ok = ok,
                      !.val = GetResult(cache_key, ok)]
    /\ UNCHANGED <<enumFormat, now, cache, lastSet, invalidated>>
    /\ UNCHANGED <<settleVars, queueVars, workerVars, statVars, cacheVars,
                   eventVars, routeVars>>

\* The key's record of the calls made since it was set, after an
\* invalidate_by_namespace(ns, identifier) call that ended as ok says.
NoteInvalidation(sets, ns, identifier, ok) ==
    [k \in CacheKeys |->
        IF Covers(ns, identifier, k) /\ sets[k].state \in {"fresh", "covered"}
        THEN IF ok /\ ~IsTruthy(identifier)
             THEN [state |-> "invalidated", value |-> PyNone, until |-> 0]
             ELSE [state |-> "covered", value |-> PyNone, until |-> sets[k].until]
        ELSE sets[k]]

\* CacheManager.invalidate_by_namespace, with invalidate_by_pattern: the
\* keys the pattern matches are deleted and their number returned; an
\* exception of the store, in the scan or in the delete, returns 0.
InvalidateByNamespace(ns, identifier, ok) ==
    LET pattern == InvalidationPattern(ns, identifier, enumFormat)
        r == InvalidateByPattern(cache, pattern, now)
        p == DeleteProcessorKeys(ProcessorState, pattern)
    IN  /\ cache' = IF ok THEN r.cache ELSE cache
        /\ dayCount' = IF ok THEN p.dayCount ELSE dayCount
        /\ txCount' = IF ok THEN p.txCount ELSE txCount
        /\ avgTx' = IF ok THEN p.avgTx ELSE avgTx
        /\ creditScore' = IF ok THEN p.creditScore ELSE creditScore
        /\ cacheRet' = [NoCall EXCEPT
                          !.op = "invalidate", !.ns = ns, !.identifier = identifier,
                          !.ok = ok, !.count = IF ok THEN r.count + p.count ELSE 0]
        /\ lastSet' = NoteInvalidation(lastSet, ns, identifier, ok)
        /\ UNCHANGED <<enumFormat, now, invalidated>>
        /\ UNCHANGED <<settleVars, queueVars, workerVars, cacheVars,
                       eventVars, routeVars>>

\* A second passes on the Redis server; the keys whose time has come are
\* expired.
Tick ==
    /\ now < MaxTime
    /\ now' = now + 1
    /\ cache' = [k \in CacheKeys |->
                    IF cache[k].present /\ ~Live(cache[k], now + 1)
                    THEN NoEntry ELSE cache[k]]
    /\ lastSet' = [k \in CacheKeys |->
                      IF lastSet[k].state \in {"fresh", "covered"}
                         /\ now + 1 >= lastSet[k].until
                      THEN [state |-> "expired", value |-> PyNone, until |-> 0]
                      ELSE lastSet[k]]
    /\ UNCHANGED <<enumFormat, cacheRet, invalidated>>
    /\ UNCHANGED <<settleVars, queueVars, workerVars, statVars, cacheVars,
                   eventVars, routeVars>>

\* The invalidate_by_namespace calls of a sequence run one after the
\* other with the store answering: the keyspace, the callers' record and
\* the last call's return after them.
RECURSIVE InvalidateEach(_, _, _, _, _)
InvalidateEach(c, st, sets, ret, calls) ==
    IF calls = <<>>
    THEN [cache |-> c, stats |-> st, lastSet |-> sets, cacheRet |-> ret]
    ELSE LET ns == Head(calls).ns
             identifier == Head(calls).identifier
             pattern == InvalidationPattern(ns, identifier, enumFormat)
             r == InvalidateByPattern(c, pattern, now)
             p == DeleteProcessorKeys(st, pattern)
         IN  InvalidateEach(
                 r.cache, p, NoteInvalidation(sets, ns, identifier, TRUE),
                 [NoCall EXCEPT !.op = "invalidate", !.ns = ns,
                                !.identifier = identifier,
                                !.count = r.count + p.count],
                 Tail(calls))

\* The namespaces the create route invalidates for a transaction of user u.
CreateInvalidations(u) ==
    << [ns |-> TRANSACTION, identifier |-> NoValue],
       [ns |-> USER, identifier |-> IntValue(u)],
       [ns |-> ANALYTICS, identifier |-> IntValue(u)] >>

\* The route create_transaction: the service is called; when it returns
\* the row, the transaction namespace and the user's entries of the user
\* and analytics namespaces are invalidated and the row returned; when it
\* raises, the except clause returns Response.error and nothing is
\* invalidated. (A store failure in an invalidation is swallowed and leaves
\* the keys; the keyspace is empty in the runs that come here, so the
\* calls are taken with the store answering.)
CreateTransactionRoute(d, ok) ==
    /\ CreateTransaction(d, ok)
    /\ IF ok /\ ModelValidates(PayloadRequired, PayloadGivenByCreate)
       THEN LET r == InvalidateEach(cache, ProcessorState, lastSet, cacheRet,
                                    CreateInvalidations(d.user_id))
            IN  /\ cache' = r.cache
                /\ dayCount' = r.stats.dayCount
                /\ txCount' = r.stats.txCount
                /\ avgTx' = r.stats.avgTx
                /\ creditScore' = r.stats.creditScore
                /\ lastSet' = r.lastSet
                /\ cacheRet' = r.cacheRet
                /\ invalidated' = [t \in TxIds |-> TRUE]
                /\ UNCHANGED <<enumFormat, now>>
       ELSE UNCHANGED <<storeVars, statVars>>
    /\ UNCHANGED <<workerVars, cacheVars, eventVars, routeVars>>

\* The key cache_route derives for the requests modelled, and the expire
\* argument of the route's decorator.
RouteKey(route) ==
    IF route = "get_transactions" THEN TransactionListKey ELSE AnalyticsKey(1)
RouteExpire(route) == IF route = "get_transactions" THEN 300 ELSE 600

\* No request of a cached route has ended.
NoResponse ==
    [route |-> "none", state |-> "none", error |-> "none", body |-> PyNone,
     kwargs |-> <<>>]

\* The routes decorated with cache_route whose requests are modelled (the
\* other two, get_transaction and get_user_transactions, are wrapped the
\* same way).
CachedRoutes == {"get_transactions", "get_transaction_analytics"}

\* A request of a cached route. cache_route's wrapper is declared
\* wrapper(request, *args, **kwargs) and copies the handler's signature
\* (functools.wraps); none of the four handlers declares a request
\* parameter, so the framework, which reads the parameters to pass from
\* that signature, calls wrapper(**values) without request. The call
\* raises TypeError before the first line of the wrapper's body: no key is
\* derived, the cache is not read or written and the handler is not invoked.
CachedRouteRequest(route) ==
    /\ routeRet' = [NoResponse EXCEPT
                       !.route = route, !.state = "raised", !.error = "TypeError"]
    /\ handlerCalls' = handlerCalls
    /\ UNCHANGED <<settleVars, queueVars, workerVars, statVars, cacheVars,
                   eventVars, storeVars>>

\* The keyword arguments of a get_transactions request, in the order of
\* the handler's parameters (the service dependency left out: it is the
\* same object for every request).
ListKwargs(skip, limit, order_by) ==
    << [name |-> <<"s", "k", "i", "p">>, value |-> IntValue(skip)],
       [name |-> <<"l", "i", "m", "i", "t">>, value |-> IntValue(limit)],
       [name |-> <<"o", "r", "d", "e", "r", "_", "b", "y">>, value |-> order_by] >>

\* order_by: no ordering, or the name of a column.
OrderColumns == {NoValue, StrValue(<<"i", "d">>), StrValue(<<"d", "a", "t", "e">>)}
ListRequests ==
    { ListKwargs(skip, limit, o) : skip \in {0, 1}, limit \in {10, 20}, o \in OrderColumns }

\* include_params of the decorator of get_transactions.
ListIncludeParams == << <<"s", "k", "i", "p">>, <<"l", "i", "m", "i", "t">> >>

\* {param: kwargs.get(param) for param in include_params if param in kwargs}
RECURSIVE CacheParams(_, _)
CacheParams(include_params, kwargs) ==
    IF include_params = <<>> THEN <<>>
    ELSE LET here == { i \in 1 .. Len(kwargs) : kwargs[i].name = Head(include_params) }
         IN  (IF here = {} THEN <<>> ELSE <<kwargs[CHOOSE i \in here : TRUE]>>)
             \o CacheParams(Tail(include_params), kwargs)

\* The key the wrapper of get_transactions derives for a request:
\* namespace TRANSACTION, prefix "list", no identifier_param, the included
\* params.
WrapperKey(kwargs) ==
    GenerateCacheKey(TRANSACTION.value, NoValue,
                     CacheParams(ListIncludeParams, kwargs),
                     StrValue(<<"l", "i", "s", "t">>))

\* cache_route's wrapper of get_transactions called as it is declared,
\* wrapper(request, **kwargs). The key is derived and read: a value found
\* is returned. On a miss the wrapper calls func(request, **kwargs); the
\* handler has no request parameter, so request is taken for skip, skip is
\* given twice and the call raises TypeError: nothing is stored.
WrapperCall(kwargs, ok) ==
    /\ WrapperKey(kwargs) \in CacheKeys
    /\ LET k == WrapperKey(kwargs)
           found == GetResult(k, ok)
       IN  /\ cacheRet' = [NoCall EXCEPT !.op = "get", !.key = k, !.ok = ok,
                                         !.val = found]
           /\ routeRet' = IF found # PyNone
                           THEN [NoResponse EXCEPT
                                   !.route = "get_transactions", !.state = "returned",
                                   !.body = found, !.kwargs = kwargs]
                           ELSE [NoResponse EXCEPT
                                   !.route = "get_transactions", !.state = "raised",
                                   !.error = "TypeError", !.kwargs = kwargs]
    /\ handlerCalls' = handlerCalls
    /\ UNCHANGED <<enumFormat, now, cache, lastSet, invalidated>>
    /\ UNCHANGED <<settleVars, queueVars, workerVars, statVars, cacheVars, eventVars>>

\* ------------------------------------------------------ event construction
\* The values a caller can hand to TransactionEvent(...): user ids that
\* are empty, blank, plain and padded; types in several spellings.
EventUserIds ==
    {<<>>, <<" ">>, <<"\t", " ">>, <<"1">>, <<" ", "7">>, <<"4", "2">>}
EventTypes == {"credit", "debit", "CREDIT", "Debit", "refund", "", "debit "}
EventInputs ==
    [user_id : EventUserIds, transaction_amount : {5},
     transaction_type : EventTypes, transaction_id : {<<"1">>, <<"2">>}]

\* TransactionEvent(...) is constructed from the fields evIn.
ConstructEvent ==
    /\ evIn # NoEventInput
    /\ evOut = NoEvent
    /\ evOut' = NewTransactionEvent(evIn.user_id, evIn.transaction_amount,
                                    evIn.transaction_type, evIn.transaction_id)
    /\ UNCHANGED evIn
    /\ UNCHANGED <<settleVars, queueVars, workerVars, statVars, cacheVars,
                   storeVars, routeVars>>

\* publish_transaction is called with the event that was constructed.
PublishConstructed(ok) ==
    /\ evOut.state = "made"
    /\ Len(pubLog) < MaxPublish
    /\ LET r == PublishResult(evOut.event, ok) IN
        /\ queues' = r.queues
        /\ channel' = r.channel
        /\ pubLog' = r.pubLog
    /\ UNCHANGED <<settleVars, otherVars>>

\* ---------------------------------------------------------- specifications
InitStore ==
    /\ balance \in [ExistingUsers -> InitBalances]
    /\ bal0 = balance
    /\ txStatus = [t \in TxIds |-> NoRow]
    /\ dispatched = {}
    /\ createErr = [t \in TxIds |-> "none"]
    /\ signal = [t \in TxIds |-> NoSignal]
    /\ hpc = [t \in TxIds |-> "idle"]
    /\ hstart = [t \in TxIds |-> NoRow]
    /\ hsess = [t \in TxIds |-> CleanSession]
    /\ hread = [t \in TxIds |-> CleanSession]
    /\ herr = [t \in TxIds |-> "none"]
    /\ hlogged = [t \in TxIds |-> FALSE]
    /\ queues = [q \in QueueNames |-> <<>>]
    /\ channel = <<>>
    /\ pubLog = <<>>
    /\ wpc = "pop_stats"
    /\ inflight = NoItem
    /\ popLog = [q \in QueueNames |-> <<>>]
    /\ procLog = [q \in QueueNames |-> <<>>]
    /\ dayCount = [u \in StatUsers |-> 0]
    /\ txCount = [u \in StatUsers |-> 0]
    /\ avgTx = [u \in StatUsers |-> Zero]
    /\ creditScore = [u \in StatUsers |-> NoScore]
    /\ keyOut = <<>>
    /\ evOut = NoEvent
    /\ now = 0
    /\ cache = [k \in CacheKeys |-> NoEntry]
    /\ cacheRet = NoCall
    /\ lastSet = [k \in CacheKeys |-> NoSet]
    /\ invalidated = [t \in TxIds |-> FALSE]
    /\ routeRet = NoResponse
    /\ handlerCalls = 0

\* The application after start-up: empty tables apart from the users,
\* empty lists, no derived keys, the background task at its first pop.
Init ==
    /\ InitStore
    /\ keyIn = NoKeyInput
    /\ evIn = NoEventInput
    /\ enumFormat = "value"

Next ==
    \/ \E d \in CreateData, ok \in BOOLEAN : CreateTransactionRoute(d, ok)
    \/ \E t \in TxIds : SignalArrives(t)
    \/ \E t \in TxIds, ok \in BOOLEAN : GetUser(t, ok)
    \/ \E t \in TxIds, o \in Outcomes : ApplyBalance(t, o)
    \/ \E t \in TxIds, ok \in BOOLEAN : OtherBranch(t, ok)
    \/ \E t \in TxIds, ok \in BOOLEAN : HandleException(t, ok)
    \/ \E t \in TxIds : CloseSession(t)

\* Settlement: transactions are created and their signals handled.
Spec == Init /\ [][Next]_vars

NextQueue == \E e \in QueueEvents, ok \in BOOLEAN : PublishTransaction(e, ok)

\* The queue service called directly.
SpecQueue == Init /\ [][NextQueue]_vars

\* The events published while the background task is watched: a debit of
\* transaction 1 and a credit of transaction 2.
WorkerEvents ==
    { e \in QueueEvents :
        \/ e.transaction_id = Str(1) /\ e.transaction_type = "debit"
        \/ e.transaction_id = Str(2) /\ e.transaction_type = "credit" }

\* A settlement publishes an event while the background task runs.
WorkerPublish(e) ==
    /\ Len(pubLog) < MaxItems
    /\ PublishTransaction(e, TRUE)

\* The queue service with its background task: publishers and the loop.
NextWorker ==
    \/ \E e \in WorkerEvents : WorkerPublish(e)
    \/ \E ok \in BOOLEAN : WorkerPop(ok)
    \/ \E outcome \in ProcOutcomes : WorkerProcess(outcome)
    \/ WorkerSleep
    \/ ProcessorStalls
    \/ \E late \in BOOLEAN : TaskCancelled(late)

SpecWorker == Init /\ [][NextWorker]_vars

\* The credit-score processor on its own, fed any sequence of events of
\* one user.
NextScore ==
    \E amount \in ScoreAmounts, tx_type \in ScoreTypes, ok \in BOOLEAN :
        ProcessCreditScore(<<"1">>, amount, tx_type, ok)

SpecScore == Init /\ [][NextScore]_vars

\* _generate_cache_key called with any of the modelled arguments.
InitKey ==
    /\ InitStore
    /\ keyIn \in KeyInputs
    /\ evIn = NoEventInput
    /\ enumFormat = "value"

NextKey == GenerateKey

SpecKey == InitKey /\ [][NextKey]_vars

\* TransactionEvent constructed from any of the modelled fields, and the
\* event that was made published.
InitEvent ==
    /\ InitStore
    /\ keyIn = NoKeyInput
    /\ evIn \in EventInputs
    /\ enumFormat = "value"

NextEvent ==
    \/ ConstructEvent
    \/ \E ok \in BOOLEAN : PublishConstructed(ok)

SpecEvent == InitEvent /\ [][NextEvent]_vars

\* The cache manager called by any caller, under either enum format, and
\* requests of the cached routes.
CacheValues == {EmptyList, OneRow}
Expiries == {1, 2}
NamespaceArgs == {TRANSACTION, ANALYTICS}
IdentifierArgs == {NoValue, IntValue(0), IntValue(1)}

InitCache ==
    /\ InitStore
    /\ keyIn = NoKeyInput
    /\ evIn = NoEventInput
    /\ enumFormat \in EnumFormats

NextCache ==
    \/ \E k \in CacheKeys, v \in CacheValues, e \in Expiries, ok \in BOOLEAN :
          SetCached(k, v, e, ok)
    \/ \E k \in CacheKeys, ok \in BOOLEAN : GetCached(k, ok)
    \/ \E ns \in NamespaceArgs, id \in IdentifierArgs, ok \in BOOLEAN :
          InvalidateByNamespace(ns, id, ok)
    \/ Tick
    \/ \E route \in CachedRoutes : CachedRouteRequest(route)

SpecCache == InitCache /\ [][NextCache]_vars

\* The event loop resumes the task whenever its await returns: a
\* processing step that is not stalled ends, the sleep ends, and the
\* transport does not fail the pops of a list forever. Stalls, cancellation
\* and publishers are not forced.
SpecWorkerFair ==
    /\ SpecWorker
    /\ \A pc \in PopStates : SF_vars(wpc = pc /\ WorkerPop(TRUE))
    /\ WF_vars(\E outcome \in ProcOutcomes : WorkerProcess(outcome))
    /\ WF_vars(WorkerSleep)

\* Settlement with the durable store available: no call of the store or of
\* the transport fails.
NextAvailable ==
    \/ \E d \in CreateData : CreateTransactionRoute(d, TRUE)
    \/ \E t \in TxIds : SignalArrives(t)
    \/ \E t \in TxIds : GetUser(t, TRUE)
    \/ \E t \in TxIds : ApplyBalance(t, "ok")
    \/ \E t \in TxIds : OtherBranch(t, TRUE)
    \/ \E t \in TxIds : HandleException(t, TRUE)
    \/ \E t \in TxIds : CloseSession(t)

\* The event middleware calls the handler for every signal that was
\* dispatched, and a handler that was invoked runs to its end. Requests
\* and signals from elsewhere are not forced.
SpecAvailable ==
    /\ Init /\ [][NextAvailable]_vars
    /\ \A t \in TxIds :
          /\ WF_vars(t \in dispatched /\ txStatus[t] = PENDING
                     /\ HandlerInvoked(t, signal[t]))
          /\ WF_vars(GetUser(t, TRUE))
          /\ WF_vars(ApplyBalance(t, "ok"))
          /\ WF_vars(OtherBranch(t, TRUE))
          /\ WF_vars(HandleException(t, TRUE))
          /\ WF_vars(CloseSession(t))

\* A fair scheduler with the loop's awaits returning: the task is resumed
\* after every brpop, however it ends, after every processing step that is
\* not stalled, and after the sleep. Whether the store answers a pop is
\* left open.
SpecWorkerRuns ==
    /\ SpecWorker
    /\ WF_vars(\E ok \in BOOLEAN : WorkerPop(ok))
    /\ WF_vars(\E outcome \in ProcOutcomes : WorkerProcess(outcome))
    /\ WF_vars(WorkerSleep)

\* Events of two users with different amounts, published while the
\* background task runs, for the stats processor.
StatsEvents ==
    { [transaction_id |-> Str(1), user_id |-> x.u, transaction_amount |-> x.a,
       transaction_type |-> "credit"] :
        x \in { [u |-> <<"1">>, a |-> 1], [u |-> <<"1">>, a |-> 2],
                [u |-> <<"2">>, a |-> 2] } }

\* The loop fed by publishers, its pops answered and its processing steps
\* ending either way; no stall and no cancellation.
NextStats ==
    \/ \E e \in StatsEvents : PublishTransaction(e, TRUE)
    \/ WorkerPop(TRUE)
    \/ \E outcome \in ProcOutcomes : WorkerProcess(outcome)
    \/ WorkerSleep

SpecStats == Init /\ [][NextStats]_vars

\* RedisQueueService.process_user_stats(transaction_data) called with an
\* event (the day counter is followed up to MaxPublish).
ProcessUserStats(e, outcome) ==
    /\ dayCount[e.user_id] < MaxPublish
    /\ LET w == StatsWritten(e, outcome) IN
        /\ dayCount' = w.dayCount
        /\ txCount' = w.txCount
        /\ avgTx' = w.avgTx
    /\ UNCHANGED creditScore
    /\ UNCHANGED <<settleVars, queueVars, workerVars, cacheVars, restVars>>

\* The invalidate_by_namespace calls the routes make for a transaction of
\* user u, each on its own.
RouteInvalidation(u, i, ok) ==
    InvalidateByNamespace(CreateInvalidations(u)[i].ns,
                          CreateInvalidations(u)[i].identifier, ok)

\* The processors and the routes' invalidations on the one Redis database,
\* under either enum format; events of amount 2, and a user's score
\* followed from the time it is not set to its first value.
NextShared ==
    \/ \E e \in StatsEvents, outcome \in ProcOutcomes :
          e.transaction_amount = 2 /\ ProcessUserStats(e, outcome)
    \/ \E u \in StatUsers, ok \in BOOLEAN :
          ~creditScore[u].set /\ ProcessCreditScore(u, 3000000, "credit", ok)
    \/ \E u \in UserIds, i \in 1 .. 3, ok \in BOOLEAN : RouteInvalidation(u, i, ok)

SpecShared == InitCache /\ [][NextShared]_vars

\* The wrapper of get_transactions called with a request, over a cache
\* that any caller sets and the server expires.
NextWrapper ==
    \/ \E k \in CacheKeys, v \in CacheValues, e \in Expiries, ok \in BOOLEAN :
          SetCached(k, v, e, ok)
    \/ \E kwargs \in ListRequests, ok \in BOOLEAN : WrapperCall(kwargs, ok)
    \/ Tick

SpecWrapper == Init /\ [][NextWrapper]_vars

\* ------------------------------------------------------------- properties
Terminal == {SUCCESS, FAILED}

\* No handler is between its invocation and its finally block.
Quiescent == \A t \in TxIds : hpc[t] \in {"idle", "done"}

\* The handler of t takes a step (every step of a handler moves its pc).
HandlerStep(t) == hpc[t] # "idle" /\ hpc'[t] # hpc[t]

\* The amount of a signal with its sign: CREDIT positive, DEBIT negative.
Signed(sig) ==
    CASE sig.transaction_type = CREDIT -> sig.amount
      [] sig.transaction_type = DEBIT -> 0 - sig.amount
      [] OTHER -> 0

\* The signed amounts, as carried in their signals, of the transactions
\* 1..n against user u that stand at SUCCESS.
RECURSIVE SuccessSum(_, _)
SuccessSum(n, u) ==
    IF n = 0 THEN 0
    ELSE SuccessSum(n - 1, u)
         + (IF txStatus[n] = SUCCESS /\ signal[n].user_id = u
            THEN Signed(signal[n]) ELSE 0)

\* The handler of t ended without the store or the transport failing.
NoStoreFailure(t) == herr[t] \notin {"StorageError", "TransportError"} /\ ~hlogged[t]

\* C1: whenever no settlement is in progress, each user's balance is the
\* initial balance plus the signed amounts of the transactions that ended
\* SUCCESS; transactions that ended FAILED contribute nothing.
C1_BalanceIsSuccessSum ==
    Quiescent =>
        \A u \in ExistingUsers : balance[u] = bal0[u] + SuccessSum(MaxTx, u)

\* A CREDIT and a DEBIT against user 1 have both been settled, each after
\* the user service changed the balance held in its session.
C1_Witness ==
    \E t1, t2 \in TxIds :
        /\ hpc[t1] = "done" /\ hpc[t2] = "done"
        /\ signal[t1].user_id = 1 /\ signal[t1].transaction_type = CREDIT
        /\ signal[t2].user_id = 1 /\ signal[t2].transaction_type = DEBIT
        /\ herr[t1] = "ValidationError" /\ herr[t2] = "ValidationError"
        /\ txStatus[t1] = FAILED /\ txStatus[t2] = FAILED

\* C2: a transaction's status starts PENDING and changes at most once, from
\* PENDING to SUCCESS or FAILED; no step takes it from SUCCESS to FAILED,
\* from FAILED to SUCCESS, or from a terminal status back to PENDING.
C2_StatusChangesOnce ==
    [][\A t \in TxIds :
          txStatus'[t] # txStatus[t] =>
              \/ txStatus[t] = NoRow /\ txStatus'[t] = PENDING
              \/ txStatus[t] = PENDING /\ txStatus'[t] \in Terminal]_vars

\* A transaction that was already FAILED has been through the handler
\* again, by the else branch and the except block, which both write FAILED.
C2_Witness ==
    \E t \in TxIds :
        /\ hstart[t] = FAILED /\ hpc[t] = "done"
        /\ herr[t] = "InvalidType" /\ ~hlogged[t] /\ txStatus[t] = FAILED

\* C3: no step of a handler that was invoked for a transaction already at
\* SUCCESS or FAILED changes that transaction's status or any user's
\* balance, or pushes or broadcasts anything.
C3_TerminalSettleIsNoOp ==
    [][\A t \in TxIds :
          (hstart[t] \in Terminal /\ HandlerStep(t)) =>
              /\ txStatus'[t] = txStatus[t]
              /\ balance' = balance
              /\ queues' = queues /\ channel' = channel /\ pubLog' = pubLog]_vars

\* The handler invoked again for a FAILED credit ran the credit path to its
\* end: the session's balance was changed, rolled back, FAILED written again.
C3_Witness ==
    \E t \in TxIds :
        /\ hstart[t] = FAILED /\ hpc[t] = "done"
        /\ signal[t].transaction_type = CREDIT /\ hread[t].loaded
        /\ herr[t] = "ValidationError" /\ ~hlogged[t]

\* C6: each call of publish_transaction either puts one copy of the
\* serialized event at the head of each of the three delivery lists and
\* sends one broadcast, or, when the transport fails, changes no list and
\* broadcasts nothing; no state has an event on some lists and not others.
C6_FanOutAllOrNothing ==
    /\ [](\A q1, q2 \in QueueNames : queues[q1] = queues[q2])
    /\ [][pubLog' # pubLog =>
          LET call == pubLog'[Len(pubLog')] IN
          /\ pubLog' = Append(pubLog, call)
          /\ IF call.ok
             THEN /\ \A q \in QueueNames : queues'[q] = <<call.data>> \o queues[q]
                  /\ channel' = Append(channel, call.data)
             ELSE /\ queues' = queues
                  /\ channel' = channel]_vars

\* A publish that went through and one whose transport failed have both
\* been made: every list holds the first event once and not the second.
C6_Witness ==
    /\ Len(pubLog) = 2
    /\ pubLog[1].ok /\ ~pubLog[2].ok /\ pubLog[1].data # pubLog[2].data
    /\ \A q \in QueueNames : queues[q] = <<pubLog[1].data>>
    /\ channel = <<pubLog[1].data>>

\* The signal of t asks for a balance change the user service lets through:
\* a credit, or a debit within the balance it read.
Applicable(t) ==
    /\ signal[t].user_id \in ExistingUsers
    /\ hread[t].loaded
    /\ \/ signal[t].transaction_type = CREDIT
       \/ signal[t].transaction_type = DEBIT /\ signal[t].amount <= hread[t].balance

\* C7: when two settlements against the same user, both in progress at the
\* same time, have both ended, the balance is the initial balance plus the
\* effects of both.
C7_NoLostUpdate ==
    \A t1, t2 \in TxIds :
        ( /\ t1 # t2
          /\ hpc[t1] = "done" /\ hpc[t2] = "done"
          /\ hstart[t1] = PENDING /\ hstart[t2] = PENDING
          /\ signal[t1].user_id = signal[t2].user_id
          /\ Applicable(t1) /\ Applicable(t2)
          /\ NoStoreFailure(t1) /\ NoStoreFailure(t2) )
        => balance[signal[t1].user_id]
             = bal0[signal[t1].user_id] + Signed(signal[t1]) + Signed(signal[t2])

\* The type of t's signal is neither CREDIT nor DEBIT.
InvalidType(t) ==
    signal[t] # NoSignal /\ signal[t].transaction_type \notin {CREDIT, DEBIT}

\* C8 as stated: a settlement whose signal carries a type that is neither
\* CREDIT nor DEBIT ends with the transaction FAILED, the balance
\* unchanged and nothing pushed or broadcast.
C8_InvalidTypeEndsFailed ==
    \A t \in TxIds :
        (hpc[t] = "done" /\ InvalidType(t)) =>
            /\ txStatus[t] = FAILED
            /\ balance = bal0
            /\ pubLog = <<>> /\ channel = <<>>
            /\ \A q \in QueueNames : queues[q] = <<>>

\* C8, amended: such a settlement never changes a balance and never pushes
\* or broadcasts; it ends with the transaction FAILED unless the FAILED
\* write of the except block failed (which the handler only logs); the
\* status is then FAILED or what it was before, and never SUCCESS.
C8_InvalidTypeFailsBestEffort ==
    /\ [](\A t \in TxIds :
            (hpc[t] = "done" /\ InvalidType(t)) =>
                /\ ~hlogged[t] => txStatus[t] = FAILED
                /\ txStatus[t] \in {FAILED, hstart[t]}
                /\ txStatus[t] # SUCCESS)
    /\ [][\A t \in TxIds :
            (InvalidType(t) /\ HandlerStep(t)) =>
                /\ balance' = balance
                /\ queues' = queues /\ channel' = channel /\ pubLog' = pubLog]_vars

\* A PENDING transaction whose signal carried "refund" has been settled:
\* the event was refused, the except block wrote FAILED.
C8_Witness ==
    \E t \in TxIds :
        /\ hpc[t] = "done" /\ hstart[t] = PENDING
        /\ signal[t].transaction_type = "refund"
        /\ herr[t] = "EventInvalid" /\ ~hlogged[t] /\ txStatus[t] = FAILED

\* C9 (Scenario A): once the settlement of a CREDIT of amount a for an
\* existing user with balance b has run, with no other settlement and no
\* store or transport failure, the balance is b + a, the transaction is
\* SUCCESS and each delivery list holds exactly its one event.
C9_CreditSettles ==
    \A t \in TxIds :
        ( /\ hpc[t] = "done" /\ hstart[t] = PENDING
          /\ signal[t].transaction_type = CREDIT
          /\ signal[t].user_id \in ExistingUsers
          /\ NoStoreFailure(t)
          /\ \A x \in TxIds \ {t} : signal[x] = NoSignal )
        => /\ balance[signal[t].user_id] = bal0[signal[t].user_id] + signal[t].amount
           /\ txStatus[t] = SUCCESS
           /\ \A q \in QueueNames :
                  queues[q] = <<Serialize(TransactionEvent(t, signal[t]))>>

\* The debit of t's signal exceeds the balance its handler read.
Overdraft(t) ==
    /\ signal[t].transaction_type = DEBIT
    /\ hread[t].loaded
    /\ hread[t].balance < signal[t].amount

\* C10 as stated (Scenario B): the settlement of a DEBIT of amount a for a
\* user with balance b < a, the store not failing, ends with balance b - a
\* and the transaction SUCCESS.
C10_OverdraftSettles ==
    \A t \in TxIds :
        (hpc[t] = "done" /\ Overdraft(t) /\ NoStoreFailure(t)) =>
            /\ balance[signal[t].user_id] = hread[t].balance - signal[t].amount
            /\ txStatus[t] = SUCCESS

\* C10, amended: a DEBIT that exceeds the balance is refused by
\* debit_user's floor check; the handler re-raises "Insufficient balance",
\* changes no balance, and the transaction ends FAILED (its status is left
\* as it was if the FAILED write fails), never SUCCESS.
C10_OverdraftRejected ==
    /\ [](\A t \in TxIds :
            (hpc[t] = "done" /\ Overdraft(t)) =>
                /\ herr[t] = "InsufficientBalance"
                /\ ~hlogged[t] => txStatus[t] = FAILED
                /\ hlogged[t] => txStatus[t] = hstart[t]
                /\ txStatus[t] # SUCCESS)
    /\ [][\A t \in TxIds :
            (Overdraft(t) /\ HandlerStep(t)) => balance' = balance]_vars

\* A DEBIT of 30 against a balance of 10 has been settled: refused, FAILED.
C10_Witness ==
    \E t \in TxIds :
        /\ hpc[t] = "done" /\ hstart[t] = PENDING
        /\ signal[t].transaction_type = DEBIT /\ signal[t].amount = 30
        /\ hread[t].loaded /\ hread[t].balance = 10
        /\ herr[t] = "InsufficientBalance"
        /\ txStatus[t] = FAILED /\ balance[1] = 10

\* The create_transaction call that made row t has ended, by returning the
\* row or by raising after the row was committed.
CreateEnded(t) == createErr[t] # "none"

\* C11: every row that create_transaction has created (PENDING) has had
\* its one settlement signal dispatched by that call, carrying the row's
\* user id, amount and type; a call that did not create the row dispatched
\* nothing.
C11_CreateDispatchesOnce ==
    \A t \in TxIds :
        /\ CreateEnded(t) =>
              /\ createErr[t] = "returned"
              /\ t \in dispatched
              /\ signal[t] # NoSignal
        /\ ~CreateEnded(t) => t \notin dispatched

\* C12: once the create_transaction call of a row has ended, the row's
\* settlement has finished: its status is SUCCESS or FAILED, not PENDING.
C12_SettledWhenCreateEnds ==
    \A t \in TxIds : CreateEnded(t) => txStatus[t] \in Terminal

\* The processor of list q is the one that stalled.
StalledOn(q) == wpc = "stalled" /\ inflight.queue = q

\* C13: an item on a list is eventually popped by its processor, whatever
\* the other two processors do, stalling forever included (until the task
\* is cancelled).
C13_ProcessorsIndependent ==
    \A q \in QueueNames :
        [](queues[q] # <<>> =>
              <>(queues[q] = <<>> \/ wpc = "exited" \/ StalledOn(q)))

RECURSIVE Reverse(_)
Reverse(seq) == IF seq = <<>> THEN <<>> ELSE Reverse(Tail(seq)) \o <<Head(seq)>>

\* The data of the publish calls that went through, in call order.
RECURSIVE PublishedData(_)
PublishedData(log) ==
    IF log = <<>> THEN <<>>
    ELSE IF Head(log).ok THEN <<Head(log).data>> \o PublishedData(Tail(log))
    ELSE PublishedData(Tail(log))

\* C14: an item leaves its list when it is popped, before it is processed;
\* a processing step that fails puts nothing back on any list and touches
\* no list; every published copy is either still on its list or was popped
\* from it once; and the copies on the lists are still popped by their
\* processors as long as no processor stalls and the task is not cancelled.
C14_LossScopedToOneList ==
    /\ [][\A q \in QueueNames :
            /\ popLog'[q] # popLog[q] =>
                  /\ inflight' = [queue |-> q, data |-> queues[q][Len(queues[q])]]
                  /\ queues'[q] = SubSeq(queues[q], 1, Len(queues[q]) - 1)
                  /\ procLog' = procLog
            /\ procLog'[q] # procLog[q] => queues' = queues]_vars
    /\ [](\A q \in QueueNames :
            Len(popLog[q]) + Len(queues[q]) = Len(PublishedData(pubLog)))
    /\ \A q \in QueueNames :
          [](queues[q] # <<>> =>
                <>(queues[q] = <<>> \/ wpc \in {"exited", "stalled"}))

\* The first event's stats processing failed: its stats copy is gone, and
\* its credit copy was popped and processed after that.
C14_Witness ==
    /\ Len(pubLog) >= 1
    /\ popLog["queue:user_stats"] # <<>>
    /\ popLog["queue:user_stats"][1] = pubLog[1].data
    /\ procLog["queue:user_stats"] # <<>>
    /\ procLog["queue:user_stats"][1] = "failed"
    /\ queues["queue:user_stats"] = <<>>
    /\ popLog["queue:credit_score"] # <<>>
    /\ popLog["queue:credit_score"][1] = pubLog[1].data
    /\ procLog["queue:credit_score"] = <<"ok">>

\* C15: each list is popped in the order of the publish calls: what was
\* popped from a list, followed by what is still on it from tail to head,
\* is the sequence of the published events.
C15_FifoPerList ==
    \A q \in QueueNames :
        popLog[q] \o Reverse(queues[q]) = PublishedData(pubLog)

\* Two different events were published one after the other and both were
\* popped from the notifications list, the first one first.
C15_Witness ==
    /\ Len(pubLog) = 2
    /\ pubLog[1].data # pubLog[2].data
    /\ popLog["queue:notifications"] = <<pubLog[1].data, pubLog[2].data>>

\* C16: when the task has ended on cancellation, no item is popped and not
\* processed.
C16_ShutdownCompletesInFlight ==
    wpc = "exited" => inflight = NoItem

\* C17: every stored credit score lies in [300, 850], and the first score
\* stored for a user is the bounded adjustment of 700.
C17_ScoreWithinBounds ==
    /\ [](\A u \in StatUsers :
            creditScore[u].set =>
                /\ creditScore[u].val >= 300 * ScoreUnit
                /\ creditScore[u].val <= 850 * ScoreUnit)
    /\ [][\A u \in StatUsers :
            (~creditScore[u].set /\ creditScore'[u].set) =>
                \E amount \in ScoreAmounts, tx_type \in ScoreTypes :
                    LET adj == IF tx_type = "credit"
                               THEN Min(amount * 2, 5 * ScoreUnit)
                               ELSE Max(-amount, (-3) * ScoreUnit)
                        v == (700 * ScoreUnit) + adj
                    IN  creditScore'[u].val =
                            IF v > 850 * ScoreUnit THEN 850 * ScoreUnit
                            ELSE IF v < 300 * ScoreUnit THEN 300 * ScoreUnit
                            ELSE v]_vars

\* The score has been driven to the upper bound and the next large credit
\* would pass it.
C17_Witness ==
    /\ creditScore[<<"1">>].set
    /\ creditScore[<<"1">>].val = 850 * ScoreUnit
    /\ CurrentScore(creditScore[<<"1">>]) + ScoreAdjustment(3000000, "credit")
          > 850 * ScoreUnit

\* The orders in which a dict of n entries can have been filled.
Orders(n) ==
    { f \in [1 .. n -> 1 .. n] : \A i, j \in 1 .. n : i # j => f[i] # f[j] }

\* The same entries inserted in the order f.
Reordered(params, f) == [i \in 1 .. Len(params) |-> params[f[i]]]

\* C18: the key derived from a param map is the key derived from the same
\* name/value pairs inserted in any other order, and calling again with the
\* same arguments gives the same key.
C18_KeyIgnoresParamOrder ==
    keyOut # <<>> =>
        /\ \A f \in Orders(Len(keyIn.params)) :
              GenerateCacheKey(keyIn.namespace, keyIn.identifier,
                               Reordered(keyIn.params, f), keyIn.prefix) = keyOut
        /\ GenerateCacheKey(keyIn.namespace, keyIn.identifier,
                            keyIn.params, keyIn.prefix) = keyOut

\* A key was derived from two params with values, inserted with the greater
\* name first.
C18_Witness ==
    /\ keyOut # <<>>
    /\ Len(keyIn.params) = 2
    /\ StrLess(keyIn.params[2].name, keyIn.params[1].name)
    /\ keyIn.params[1].value.kind # "none"
    /\ keyIn.params[2].value.kind # "none"

\* The key of the same call without params: the segments before the param
\* segment.
KeyHead ==
    GenerateCacheKey(keyIn.namespace, keyIn.identifier, <<>>, keyIn.prefix)

\* Some param of the call has a value.
HasParamValue == \E i \in 1 .. Len(keyIn.params) : keyIn.params[i].value.kind # "none"

\* What follows the head and its ':' in the derived key.
KeyParamSegment == SubSeq(keyOut, Len(KeyHead) + 2, Len(keyOut))

\* C19: when the encoded params are longer than 100 characters the key's
\* param segment is their 32-digit hash; when they are 100 characters or
\* shorter it is the encoded params themselves; in both cases it is at
\* most 100 characters long.
C19_ParamSegmentBounded ==
    (keyOut # <<>> /\ HasParamValue) =>
        LET ps == ParamString(keyIn.params) IN
        /\ SubSeq(keyOut, 1, Len(KeyHead) + 1) = KeyHead \o <<":">>
        /\ Len(ps) > 100 =>
              /\ KeyParamSegment = Md5Hex(ps)
              /\ Len(KeyParamSegment) = 32
        /\ Len(ps) <= 100 => KeyParamSegment = ps
        /\ Len(KeyParamSegment) <= 100

\* A key was derived from params whose encoded form is 101 characters long.
C19_Witness ==
    /\ keyOut # <<>>
    /\ Len(ParamString(keyIn.params)) = 101
    /\ Len(KeyParamSegment) = 32

\* The params that have a value, each as ":name_value", by ascending name.
RECURSIVE ColonParams(_)
ColonParams(pairs) ==
    IF pairs = {} THEN <<>>
    ELSE LET least == CHOOSE kv \in pairs :
                          \A other \in pairs \ {kv} : StrLess(kv.name, other.name)
         IN  <<":">> \o least.name \o <<"_">> \o FormatValue(least.value)
             \o ColonParams(pairs \ {least})

\* The key in the format namespace[:prefix][:identifier][:name_value...].
FormatKey ==
    keyIn.namespace
    \o (IF keyIn.prefix.kind = "str" /\ keyIn.prefix.str # <<>>
        THEN <<":">> \o keyIn.prefix.str ELSE <<>>)
    \o (IF keyIn.identifier.kind = "int" THEN <<":">> \o Str(keyIn.identifier.int)
        ELSE IF keyIn.identifier.kind = "str" THEN <<":">> \o keyIn.identifier.str
        ELSE <<>>)
    \o ColonParams({ keyIn.params[i] : i \in
                       { j \in 1 .. Len(keyIn.params) :
                           keyIn.params[j].value.kind # "none" } })

PublishedFor(t) ==
    { i \in 1 .. Len(pubLog) : pubLog[i].ok /\ pubLog[i].data[4] = Str(t) }

\* C27: at most one event is published per transaction; an event is
\* published only by a step that leaves its transaction committed SUCCESS;
\* and a transaction whose settlement ended FAILED has no published event.
C27_OneEventPerTransaction ==
    /\ [](\A t \in TxIds : Cardinality(PublishedFor(t)) <= 1)
    /\ [][pubLog' # pubLog =>
            \E t \in TxIds :
                /\ pubLog'[Len(pubLog')].data[4] = Str(t)
                /\ txStatus'[t] = SUCCESS]_vars
    /\ [](\A t \in TxIds :
            (txStatus[t] = FAILED /\ hpc[t] \in {"idle", "done"}) =>
                PublishedFor(t) = {})

\* Both transactions went through the credit and the debit path of the
\* handler and ended FAILED; nothing was published for either.
C27_Witness ==
    \E t1, t2 \in TxIds :
        /\ hpc[t1] = "done" /\ hpc[t2] = "done"
        /\ signal[t1].transaction_type = CREDIT /\ hread[t1].loaded
        /\ signal[t2].transaction_type = DEBIT /\ hread[t2].loaded
        /\ txStatus[t1] = FAILED /\ txStatus[t2] = FAILED
        /\ PublishedFor(t1) = {} /\ PublishedFor(t2) = {}

\* The balance step of t's settlement is one the user service rejects: a
\* CREDIT or DEBIT for a user that has no row, or a DEBIT that exceeds the
\* balance read.
RejectedStep(t) ==
    /\ signal[t].transaction_type \in {CREDIT, DEBIT}
    /\ \/ signal[t].user_id \notin ExistingUsers
       \/ Overdraft(t)

\* C29 as stated: a settlement whose balance step is rejected ends with
\* the transaction FAILED, no balance changed and no event published.
C29_RejectedEndsFailed ==
    \A t \in TxIds :
        (hpc[t] = "done" /\ RejectedStep(t)) =>
            /\ txStatus[t] = FAILED
            /\ balance = bal0
            /\ PublishedFor(t) = {}

\* C29, amended: such a settlement re-raises the rejection (or the store's
\* error, when loading the user failed), changes no balance and publishes
\* nothing; the transaction ends FAILED unless the FAILED write of the
\* except block itself fails, which is only logged and leaves the status
\* as it was; it never ends SUCCESS.
C29_RejectedFailsBestEffort ==
    /\ [](\A t \in TxIds :
            (hpc[t] = "done" /\ RejectedStep(t)) =>
                /\ herr[t] \in {"UserNotFound", "InsufficientBalance", "StorageError"}
                /\ hread[t].loaded => herr[t] = "InsufficientBalance"
                /\ ~hlogged[t] => txStatus[t] = FAILED
                /\ hlogged[t] => txStatus[t] = hstart[t]
                /\ txStatus[t] # SUCCESS
                /\ PublishedFor(t) = {})
    /\ [][\A t \in TxIds :
            (RejectedStep(t) /\ HandlerStep(t)) =>
                /\ balance' = balance
                /\ queues' = queues /\ channel' = channel /\ pubLog' = pubLog]_vars

\* A CREDIT for user 2, who has no row, and a DEBIT of 30 against the
\* balance 10 of user 1 have both been settled: both refused, both FAILED.
C29_Witness ==
    \E t1, t2 \in TxIds :
        /\ hpc[t1] = "done" /\ hstart[t1] = PENDING
        /\ signal[t1].user_id = 2 /\ herr[t1] = "UserNotFound"
        /\ txStatus[t1] = FAILED
        /\ hpc[t2] = "done" /\ hstart[t2] = PENDING
        /\ Overdraft(t2) /\ herr[t2] = "InsufficientBalance"
        /\ txStatus[t2] = FAILED
        /\ balance = bal0 /\ pubLog = <<>>


\* ------------------------------------------------------------------- C26
\* C26: cache invalidation tracks settlement: whenever a transaction's
\* settlement handler has finished and has changed the transaction's status
\* (or a balance), an invalidation of the affected namespaces has run since
\* the change, so no cached read can still hold the pre-settlement state.
C26_SettlementInvalidates ==
    \A t \in TxIds :
        (hpc[t] = "done" /\ txStatus[t] # hstart[t]) => invalidated[t]


\* ------------------------------------------------------------------- C28
\* A user_id that is empty or holds whitespace only.
Blank(user_id) == \A i \in 1 .. Len(user_id) : user_id[i] \in Whitespace

\* The spellings of credit and debit, in any case, among the model's types.
CaseVariants == {"credit", "debit", "CREDIT", "DEBIT", "Credit", "Debit"}

\* C28: constructing a TransactionEvent fails exactly when user_id is empty
\* or whitespace only, or transaction_type is not credit or debit compared
\* without case; an accepted type is stored in lower case; so every item on
\* every delivery list has a non-blank user_id and a type in {credit, debit}.
C28_EventValidation ==
    /\ evOut # NoEvent =>
          (evOut.state = "error" <=>
              \/ Blank(evIn.user_id)
              \/ evIn.transaction_type \notin CaseVariants)
    /\ evOut.state = "made" =>
          /\ evOut.event.transaction_type \in {"credit", "debit"}
          /\ evOut.event.user_id = evIn.user_id
    /\ \A n \in QueueNames : \A i \in 1 .. Len(queues[n]) :
          /\ ~Blank(queues[n][i][1])
          /\ queues[n][i][3] \in {"credit", "debit"}

\* An event given a padded user_id and the type CREDIT was constructed,
\* stored with the type credit, and pushed on every delivery list.
C28_Witness ==
    /\ evIn.user_id = <<" ", "7">> /\ evIn.transaction_type = "CREDIT"
    /\ evOut.state = "made" /\ evOut.event.transaction_type = "credit"
    /\ \A n \in QueueNames :
          /\ Len(queues[n]) > 0
          /\ queues[n][1][1] = <<" ", "7">> /\ queues[n][1][3] = "credit"


\* ------------------------------------------------------------------- C21
\* What get_cached gives back of a value that set_cached stored.
Stored(value) == JsonLoads(JsonDumps(SerializeData(value)))

\* C21: at every moment, a get_cached that the store answers returns the
\* stored value for a key that was set, whose ttl has not run out and for
\* which no invalidation meant for it has been called since; it returns
\* absent for a key whose ttl has run out, and for a key on whose
\* namespace invalidate_by_namespace has been called.
C21_SetThenGet ==
    \A k \in CacheKeys :
        LET s == lastSet[k] IN
        /\ s.state = "fresh" => GetResult(k, TRUE) = Stored(s.value)
        /\ s.state \in {"expired", "invalidated"} => GetResult(k, TRUE) = PyNone


\* ------------------------------------------------------------------- C23
\* The key begins with the namespace's text and ':' and, when an identifier
\* was passed, holds the identifier's text.
NamedBy(ns, identifier, key) ==
    /\ KeyNamespace(key) = ns.value
    /\ identifier.kind # "none" => Contains(FormatValue(identifier), key)

\* The keys a step removes from the keyspace.
Deleted == { k \in CacheKeys : Live(cache[k], now) /\ ~Live(cache'[k], now') }

\* C23: after an invalidate_by_namespace(ns) that the store answered no key
\* beginning with 'ns:' remains, after invalidate_by_namespace(ns, id) no
\* key beginning with 'ns:' that holds the text of id remains, and the
\* count a call returns is the number of keys it deleted.
C23_InvalidationComplete ==
    /\ []((cacheRet.op = "invalidate" /\ cacheRet.ok) =>
            \A k \in CacheKeys :
                NamedBy(cacheRet.ns, cacheRet.identifier, k) => ~Live(cache[k], now))
    /\ [][(cacheRet'.op = "invalidate" /\ cacheRet'.ok /\ now' = now
             /\ (cacheRet' # cacheRet \/ cache' # cache)) =>
          cacheRet'.count = Cardinality(Deleted)]_vars


\* ------------------------------------------------------------------- C24
\* C24: a request of a cached route whose derived key is in the cache
\* returns the cached value without invoking the handler; a request whose
\* key is not there invokes the handler once, stores its result under the
\* key with the route's expiry, and returns that result.
C24_HitMissProtocol ==
    [][routeRet' # routeRet =>
        LET k == RouteKey(routeRet'.route) IN
        /\ routeRet'.state = "returned"
        /\ IF Live(cache[k], now)
           THEN /\ routeRet'.body = GetResult(k, TRUE)
                /\ handlerCalls' = handlerCalls
                /\ cache' = cache
           ELSE /\ handlerCalls' = handlerCalls + 1
                /\ cache'[k] = [present |-> TRUE,
                                text |-> JsonDumps(SerializeData(routeRet'.body)),
                                expireAt |-> now + RouteExpire(routeRet'.route)]]_vars

\* ------------------------------------------------------------------- C22
\* C22: when the store raises, get_cached returns absent, set_cached
\* returns False and invalidate_by_namespace returns 0, none of them
\* raises, and a request of a cached route still returns a result of its
\* handler.
C22_CacheFailuresSwallowed ==
    /\ ~cacheRet.ok =>
          /\ cacheRet.op = "get" => cacheRet.val = PyNone
          /\ cacheRet.op = "set" => ~cacheRet.flag
          /\ cacheRet.op = "invalidate" => cacheRet.count = 0
          /\ ~cacheRet.raised
    /\ routeRet.route # "none" =>
          /\ routeRet.state = "returned"
          /\ routeRet.body \in CacheValues


\* ------------------------------------------------------------------- C31
\* C31: with the durable store available, every transaction that stands at
\* PENDING eventually stands at SUCCESS or FAILED, and every invocation of
\* the settlement handler ends with the transaction not PENDING.
C31_SettlementTerminates ==
    /\ \A t \in TxIds : [](txStatus[t] = PENDING => <>(txStatus[t] \in Terminal))
    /\ [](\A t \in TxIds : hpc[t] = "done" => txStatus[t] # PENDING)


\* ------------------------------------------------------------------- C32
\* The last entry of a log.
Last(log) == log[Len(log)]

\* C32: a processing step that raises sends the loop to its backoff and does
\* not end it; the backoff ends and the loop polls again from the stats
\* list (unless the task is cancelled meanwhile); a pop that finds its list
\* empty and returns none is followed by the pop of the next list, with no
\* backoff and no failure logged.
C32_LoopSurvivesErrors ==
    /\ [][\A q \in QueueNames :
            (procLog'[q] # procLog[q] /\ Last(procLog'[q]) = "failed") =>
                wpc' = "sleep"]_vars
    /\ [][(wpc = "sleep" /\ wpc' # wpc) => wpc' \in {"pop_stats", "exited"}]_vars
    /\ [](wpc = "sleep" => <>(wpc \in {"pop_stats", "exited"}))
    /\ [][(wpc \in PopStates /\ queues[QueueOf(wpc)] = <<>> /\ WorkerPop(TRUE)) =>
            /\ wpc' \in PopStates /\ wpc' # wpc
            /\ QueueOf(wpc') # QueueOf(wpc)
            /\ procLog' = procLog /\ queues' = queues]_vars

\* The stats processing of the first event failed, the loop backed off and
\* came round again: the second event's stats copy was processed, then a
\* credit copy, and the loop stands at the pop of the notifications list.
C32_Witness ==
    /\ procLog["queue:user_stats"] = <<"failed", "ok">>
    /\ queues["queue:user_stats"] = <<>>
    /\ procLog["queue:credit_score"] # <<>>
    /\ wpc = "pop_notif"


\* ------------------------------------------------------------------- C33
\* The position of the loop at which list q is popped.
PopOf(q) ==
    CASE q = "queue:user_stats" -> "pop_stats"
      [] q = "queue:credit_score" -> "pop_credit"
      [] OTHER -> "pop_notif"

\* C33: under a fair scheduler, with the loop running and processing steps
\* that end, every item on a delivery list whose own pops the store does
\* not refuse forever is eventually popped, whatever happens on the other
\* lists; it is popped once and handed to its list's processor.
C33_EveryItemConsumed ==
    /\ \A q \in QueueNames :
          SF_vars(wpc = PopOf(q) /\ WorkerPop(TRUE)) =>
              [](queues[q] # <<>> =>
                    <>(queues[q] = <<>> \/ wpc \in {"exited", "stalled"}))
    /\ [](\A q \in QueueNames :
            Len(popLog[q]) + Len(queues[q]) = Len(PublishedData(pubLog)))
    /\ [][\A q \in QueueNames :
            popLog'[q] # popLog[q] =>
                /\ wpc = PopOf(q) /\ wpc' = ProcOf(wpc)
                /\ inflight'.queue = q]_vars


\* ------------------------------------------------------------------- C34
\* The amounts of the first n items popped from the stats list that belong
\* to user u and that process_user_stats processed to its end, summed, and
\* their number.
RECURSIVE ProcessedSum(_, _)
ProcessedSum(n, u) ==
    IF n = 0 THEN [sum |-> 0, count |-> 0]
    ELSE LET r == ProcessedSum(n - 1, u)
             e == ParseEvent(popLog["queue:user_stats"][n])
         IN  IF procLog["queue:user_stats"][n] = "ok" /\ e.user_id = u
             THEN [sum |-> r.sum + e.transaction_amount, count |-> r.count + 1]
             ELSE r

\* C34: whenever the stats processor has completely processed n events of
\* a user, the user's stored count is n and the stored mean is the sum of
\* the n amounts divided by n; each complete step takes the mean m, the new
\* count n and the amount a to m + (a - m) / n, in exact arithmetic.
C34_RunningMean ==
    /\ [](\A u \in StatUsers :
            LET r == ProcessedSum(Len(procLog["queue:user_stats"]), u) IN
            /\ txCount[u] = r.count
            /\ avgTx[u] = IF r.count = 0 THEN Zero ELSE Fraction(r.sum, r.count))
    /\ [][\A u \in StatUsers :
            txCount'[u] # txCount[u] =>
                LET m == avgTx[u]
                    n == txCount'[u]
                    a == ParseEvent(inflight.data).transaction_amount
                IN  /\ n = txCount[u] + 1
                    /\ avgTx'[u] = Fraction((m.num * n) + ((a * m.den) - m.num),
                                            m.den * n)]_vars

\* Three events of user 1 with the amounts 1, 2 and 2 have been processed
\* completely: the count is 3 and the mean 5/3.
C34_Witness ==
    /\ txCount[<<"1">>] = 3
    /\ avgTx[<<"1">>] = [num |-> 5, den |-> 3]
    /\ procLog["queue:user_stats"] = <<"ok", "ok", "ok">>


\* ------------------------------------------------------------------- C35
\* C35: no invalidate_by_namespace call that the routes make changes a key
\* the processors own: the day counters, the counts, the means and the
\* credit scores are left as they are by every invalidation.
C35_InvalidationSparesDerivedState ==
    [][(cacheRet' # cacheRet /\ cacheRet'.op = "invalidate") =>
          /\ dayCount' = dayCount /\ txCount' = txCount
          /\ avgTx' = avgTx /\ creditScore' = creditScore]_vars



\* ------------------------------------------------------------------- C36
\* C36: an invalidate_by_namespace(ns, id) called with an identifier, the
\* identifier 0 included, deletes no key of the namespace whose text does
\* not hold the identifier's text and no key of another namespace.
C36_IdentifierScoped ==
    [][(cacheRet' # cacheRet /\ cacheRet'.op = "invalidate"
          /\ cacheRet'.identifier.kind # "none") =>
          \A k \in Deleted : NamedBy(cacheRet'.ns, cacheRet'.identifier, k)]_vars



\* ------------------------------------------------------------------- C37
\* C37: no user's balance is ever negative: the committed balance of every
\* user is >= 0 in every state, and so is every balance a handler's session
\* holds for its next commit, because debit_user raises before it subtracts
\* an amount larger than the balance it loaded.
C37_BalanceNeverNegative ==
    /\ \A u \in ExistingUsers : balance[u] >= 0
    /\ \A t \in TxIds : hsess[t].loaded => hsess[t].balance >= 0

\* Two settlements have run one after the other against the balance 10, a
\* DEBIT of 5 and then a DEBIT of 30 that debit_user refused.
C37_Witness ==
    /\ hpc[1] = "done" /\ signal[1].transaction_type = DEBIT
    /\ signal[1].amount = 5 /\ herr[1] = "ValidationError"
    /\ hpc[2] = "done" /\ signal[2].transaction_type = DEBIT
    /\ signal[2].amount = 30 /\ herr[2] = "InsufficientBalance"
    /\ hread[2].loaded /\ hread[2].balance <= bal0[1]
    /\ balance[1] >= 0


\* ------------------------------------------------------------------- C38
\* C38: a cached value is returned to the request it belongs to: two
\* get_transactions requests that differ in skip, limit or order_by never
\* derive the same cache key, and the key a request is answered from is
\* the key of no request with other values of these parameters.
C38_KeyPerRequest ==
    /\ [](\A r1, r2 \in ListRequests : r1 # r2 => WrapperKey(r1) # WrapperKey(r2))
    /\ [][(routeRet' # routeRet /\ routeRet'.state = "returned") =>
            \A r \in ListRequests :
                r # routeRet'.kwargs => WrapperKey(r) # cacheRet'.key]_vars



\* ------------------------------------------------------------------- C39
\* C39: whenever the worker is not inside process_user_stats, a stats step
\* that raised part-way included, every user's per-day transaction
\* counters add up to the user's stored overall count, the count the
\* running mean is taken over.
C39_CountersConsistent ==
    wpc # "proc_stats" => \A u \in StatUsers : dayCount[u] = txCount[u]

====
